---- MODULE Spec2Model ----
(***************************************************************************)
(* Approval workflow (internal marks, on-duty requests) and timetable      *)
(* scheduling of the academic-operations backend, as state machines over   *)
(* the tenant-scoped store.  Every HTTP handler is a request process: a    *)
(* "call" step (role guard, tenant resolution, building the statement)     *)
(* followed by one step per statement it sends to the store.  A statement  *)
(* (a filtered UPDATE, an INSERT, an UPSERT, a DELETE) is atomic in the    *)
(* store; handlers of different requests interleave between statements.    *)
(***************************************************************************)
EXTENDS Integers, Sequences, FiniteSets, TLC

VARIABLES
    clock,            \* wall clock read by datetime.utcnow()
    pc,               \* position of each request process
    req,              \* local variables of the handler a process runs
    resp,             \* last HTTP response each process returned
    internal_marks,   \* table internal_marks
    od_requests,      \* table od_requests
    timetable_slots,  \* table timetable_slots
    catalog           \* tables the workflows only read: batches, subjects,
                      \* faculty_assignments, period_templates, classrooms

vars == <<clock, pc, req, resp, internal_marks, od_requests, timetable_slots, catalog>>

-----------------------------------------------------------------------------
(* Bounds of the model *)

MaxCalls == 2
MaxOdRows == 4

\* two request processes: enough for any two handlers to interleave
Procs == {1, 2}

\* the process that serves requests one at a time
Solo == {1}

-----------------------------------------------------------------------------
(* Principals: the result of identity resolution *)

None == "none"
NoTime == 0

Tenants == {"t1", "t2"}

Users ==
    {"fac1", "fac2", "hod1", "adm1", "stu1", "stu2", "fac9", "adm9", "stu9", "root", "lost"}

role(u) ==
    CASE u \in {"fac1", "fac2", "fac9", "lost"} -> "faculty"
      [] u = "hod1" -> "hod"
      [] u \in {"adm1", "adm9"} -> "admin"
      [] u \in {"stu1", "stu2", "stu9"} -> "student"
      [] OTHER -> "super_admin"

tenant_of(u) ==
    CASE u \in {"fac1", "fac2", "hod1", "adm1", "stu1", "stu2"} -> "t1"
      [] u \in {"fac9", "adm9", "stu9"} -> "t2"
      [] OTHER -> None

\* a guard that lets the super admin through every operation
require_role_or_super(allowed_roles, u) ==
    role(u) \in allowed_roles \cup {"super_admin"}

\* require_role: the caller's role is in the operation's allowed set
require_role(allowed_roles, u) == role(u) \in allowed_roles

\* get_tenant_id raises 403 for a caller without tenant unless super_admin
get_tenant_id_ok(u) == role(u) = "super_admin" \/ tenant_of(u) # None

get_tenant_id(u) == tenant_of(u)

\* the guard of every handler: role guard, then tenant resolution
Admitted(allowed_roles, u) == require_role(allowed_roles, u) /\ get_tenant_id_ok(u)

-----------------------------------------------------------------------------
(* Responses and request bookkeeping *)

NoCatalog ==
    [batches |-> {}, subjects |-> {}, faculty_assignments |-> <<>>,
     period_templates |-> {}, classrooms |-> {}]

NoReq == [op |-> "none"]
NoResp == [code |-> 0, data |-> {}]

success_response(data) == [code |-> 200, data |-> data]
HTTPException(status_code) == [code |-> status_code, data |-> {}]

\* columns of update_data overwrite the row's, the others are kept
ApplyUpdate(row, update_data) ==
    [c \in DOMAIN row |-> IF c \in DOMAIN update_data THEN update_data[c] ELSE row[c]]

\* wall-clock time at which the model starts, after the seeded history
StartClock == 3

\* requests are admitted until MaxCalls of them have been served
CanCall == clock < StartClock + MaxCalls

\* a request is refused by the role guard or the tenant check: no statement is sent
Denied(p, u, allowed_roles) ==
    /\ pc[p] = "idle"
    /\ ~Admitted(allowed_roles, u)
    /\ resp' = [resp EXCEPT ![p] = HTTPException(403)]
    /\ req' = [req EXCEPT ![p] = NoReq]
    /\ UNCHANGED <<clock, pc, internal_marks, od_requests, timetable_slots, catalog>>

-----------------------------------------------------------------------------
(* Internal marks: submit / approve / reject / lock *)

Subjects == {"sub1", "sub2"}
StudentIds == {"stu1", "stu2"}

\* a MarkEntry's (marks, max_marks); max_marks defaults to 100
MarkEntryValues == {[marks |-> 10, max_marks |-> 100], [marks |-> 20, max_marks |-> 50]}

MarksKey(r) == <<r.tenant_id, r.subject_id, r.student_id>>

\* body.entries of MarksSubmit: one MarkEntry per listed student
EntryLists ==
    { [s \in S |-> v] : S \in (SUBSET StudentIds) \ {{}}, v \in MarkEntryValues }

MarkActions == {"approve", "reject", "publish"}

\* the records list built by submit_marks
\* a submit that stores its rows as approved
SubmitRecordsApproved(tenant_id, subject_id, entries, user_id) ==
    { [tenant_id |-> tenant_id, subject_id |-> subject_id, student_id |-> s,
       marks |-> entries[s].marks, max_marks |-> entries[s].max_marks,
       status |-> "approved", submitted_by |-> user_id] : s \in DOMAIN entries }

SubmitRecords(tenant_id, subject_id, entries, user_id) ==
    { [tenant_id |-> tenant_id, subject_id |-> subject_id, student_id |-> s,
       marks |-> entries[s].marks, max_marks |-> entries[s].max_marks,
       status |-> "submitted", submitted_by |-> user_id] : s \in DOMAIN entries }

\* a row inserted by the upsert: the columns not supplied take their defaults
NewMarkRow(rec) ==
    [tenant_id |-> rec.tenant_id, subject_id |-> rec.subject_id,
     student_id |-> rec.student_id, marks |-> rec.marks, max_marks |-> rec.max_marks,
     status |-> rec.status, submitted_by |-> rec.submitted_by,
     approved_by |-> None, approved_at |-> NoTime,
     locked_by |-> None, locked_at |-> NoTime]

\* upsert(records, on_conflict="tenant_id,subject_id,student_id"): the rows written
UpsertRow(table, rec) ==
    IF \E r \in table : MarksKey(r) = MarksKey(rec)
    THEN { ApplyUpdate(r, rec) : r \in { x \in table : MarksKey(x) = MarksKey(rec) } }
    ELSE { NewMarkRow(rec) }

UpsertWritten(table, records) == UNION { UpsertRow(table, rec) : rec \in records }

\* a plain insert of the records
UpsertTableInsertOnly(table, records) ==
    table \cup { NewMarkRow(rec) : rec \in records }

UpsertTable(table, records) ==
    { r \in table : ~ \E rec \in records : MarksKey(r) = MarksKey(rec) }
        \cup UpsertWritten(table, records)

\* the filter without its status condition
MarksMatchAnyStatus(table, tenant_id, subject_id, status) ==
    { r \in table : r.tenant_id = tenant_id /\ r.subject_id = subject_id }

\* the filter without its subject condition
MarksMatchAnySubject(table, tenant_id, subject_id, status) ==
    { r \in table : r.tenant_id = tenant_id /\ r.status = status }

\* .eq("tenant_id", ..).eq("subject_id", ..).eq("status", ..) on internal_marks
MarksMatch(table, tenant_id, subject_id, status) ==
    { r \in table : /\ r.tenant_id = tenant_id
                    /\ r.subject_id = subject_id
                    /\ r.status = status }

\* the statement returning every row of the subject instead of the rows it changed
MarksUpdatedAllRows(table, tenant_id, subject_id, status, update_data) ==
    { IF r.status = status THEN ApplyUpdate(r, update_data) ELSE r :
          r \in { x \in table : x.tenant_id = tenant_id /\ x.subject_id = subject_id } }

\* the statement returning the matched rows as they were before the update
MarksUpdatedStale(table, tenant_id, subject_id, status, update_data) ==
    MarksMatch(table, tenant_id, subject_id, status)

\* update(update_data) over the matched rows: the rows returned
MarksUpdated(table, tenant_id, subject_id, status, update_data) ==
    { ApplyUpdate(r, update_data) : r \in MarksMatch(table, tenant_id, subject_id, status) }

MarksAfterUpdate(table, tenant_id, subject_id, status, update_data) ==
    (table \ MarksMatch(table, tenant_id, subject_id, status))
        \cup MarksUpdated(table, tenant_id, subject_id, status, update_data)

\* approve_marks taking the approver's stamp from the row's submitter
MarksUpdateDataNoStamp(action, user_id, now) ==
    IF action = "approve"
    THEN [status |-> "approved", approved_at |-> now]
    ELSE [status |-> "draft"]

\* update_data of approve_marks for each action
MarksUpdateData(action, user_id, now) ==
    IF action = "approve"
    THEN [status |-> "approved", approved_by |-> user_id, approved_at |-> now]
    ELSE [status |-> "draft"]

\* update_data of lock_marks
LockUpdateData(user_id, now) ==
    [status |-> "locked", locked_by |-> user_id, locked_at |-> now]

submit_marks_call(p, u, subject_id, entries) ==
    /\ pc[p] = "idle"
    /\ CanCall
    /\ Admitted({"faculty"}, u)
    /\ req' = [req EXCEPT ![p] =
                 [op |-> "submit", tenant_id |-> get_tenant_id(u), user_id |-> u,
                  subject_id |-> subject_id,
                  records |-> SubmitRecords(get_tenant_id(u), subject_id, entries, u)]]
    /\ pc' = [pc EXCEPT ![p] = "exec"]
    /\ clock' = clock + 1
    /\ UNCHANGED <<resp, internal_marks, od_requests, timetable_slots, catalog>>

submit_marks_exec(p) ==
    /\ pc[p] = "exec"
    /\ req[p].op = "submit"
    /\ internal_marks' = UpsertTable(internal_marks, req[p].records)
    /\ resp' = [resp EXCEPT ![p] =
                  success_response(UpsertWritten(internal_marks, req[p].records))]
    /\ pc' = [pc EXCEPT ![p] = "idle"]
    /\ UNCHANGED <<clock, req, od_requests, timetable_slots, catalog>>

approve_marks_call(p, u, subject_id, action) ==
    /\ pc[p] = "idle"
    /\ CanCall
    /\ Admitted({"hod", "admin"}, u)
    /\ clock' = clock + 1
    /\ IF action \in {"approve", "reject"}
       THEN /\ req' = [req EXCEPT ![p] =
                         [op |-> action, tenant_id |-> get_tenant_id(u), user_id |-> u,
                          subject_id |-> subject_id, now |-> clock,
                          update_data |-> MarksUpdateData(action, u, clock)]]
            /\ pc' = [pc EXCEPT ![p] = "exec"]
            /\ UNCHANGED resp
       ELSE /\ resp' = [resp EXCEPT ![p] = HTTPException(400)]
            /\ req' = [req EXCEPT ![p] = NoReq]
            /\ UNCHANGED pc
    /\ UNCHANGED <<internal_marks, od_requests, timetable_slots, catalog>>

approve_marks_exec(p) ==
    /\ pc[p] = "exec"
    /\ req[p].op \in {"approve", "reject"}
    /\ internal_marks' = MarksAfterUpdate(internal_marks, req[p].tenant_id,
                             req[p].subject_id, "submitted", req[p].update_data)
    /\ resp' = [resp EXCEPT ![p] =
                  success_response(MarksUpdated(internal_marks, req[p].tenant_id,
                             req[p].subject_id, "submitted", req[p].update_data))]
    /\ pc' = [pc EXCEPT ![p] = "idle"]
    /\ UNCHANGED <<clock, req, od_requests, timetable_slots, catalog>>

lock_marks_call(p, u, subject_id) ==
    /\ pc[p] = "idle"
    /\ CanCall
    /\ Admitted({"admin"}, u)
    /\ clock' = clock + 1
    /\ req' = [req EXCEPT ![p] =
                 [op |-> "lock", tenant_id |-> get_tenant_id(u), user_id |-> u,
                  subject_id |-> subject_id, now |-> clock,
                  update_data |-> LockUpdateData(u, clock)]]
    /\ pc' = [pc EXCEPT ![p] = "exec"]
    /\ UNCHANGED <<resp, internal_marks, od_requests, timetable_slots, catalog>>

lock_marks_exec(p) ==
    /\ pc[p] = "exec"
    /\ req[p].op = "lock"
    /\ internal_marks' = MarksAfterUpdate(internal_marks, req[p].tenant_id,
                             req[p].subject_id, "approved", req[p].update_data)
    /\ resp' = [resp EXCEPT ![p] =
                  success_response(MarksUpdated(internal_marks, req[p].tenant_id,
                             req[p].subject_id, "approved", req[p].update_data))]
    /\ pc' = [pc EXCEPT ![p] = "idle"]
    /\ UNCHANGED <<clock, req, od_requests, timetable_slots, catalog>>

\* the principals that call the marks endpoints
MarksCallers == {"fac1", "hod1", "adm1", "stu1", "adm9", "root", "lost"}

MarksAllowed == {{"faculty"}, {"hod", "admin"}, {"admin"}}

\* Stored marks the service may start from: histories of submit, approve, reject
\* and lock requests served at times 1 and 2, built with the handlers' own statements.
BothStudents == [s \in StudentIds |-> [marks |-> 10, max_marks |-> 100]]
OnlyStu2 == [s \in {"stu2"} |-> [marks |-> 20, max_marks |-> 50]]

SeedSubmitted == UpsertTable({}, SubmitRecords("t1", "sub1", BothStudents, "fac1"))
SeedApproved ==
    MarksAfterUpdate(SeedSubmitted, "t1", "sub1", "submitted",
                     MarksUpdateData("approve", "hod1", 1))
SeedRejected ==
    MarksAfterUpdate(SeedSubmitted, "t1", "sub1", "submitted",
                     MarksUpdateData("reject", "hod1", 1))
SeedLocked ==
    MarksAfterUpdate(SeedApproved, "t1", "sub1", "approved", LockUpdateData("adm1", 2))
SeedApprovedMixed ==
    UpsertTable(SeedApproved, SubmitRecords("t1", "sub1", OnlyStu2, "fac1"))
SeedLockedMixed ==
    UpsertTable(SeedLocked, SubmitRecords("t1", "sub1", OnlyStu2, "fac1"))
SeedForeign ==
    UpsertTable(UpsertTable({}, SubmitRecords("t2", "sub1", OnlyStu2, "fac9")),
                SubmitRecords("t1", "sub2", OnlyStu2, "fac1"))

MarksSeeds ==
    LET own == {SeedSubmitted, SeedRejected, SeedApprovedMixed, SeedLockedMixed}
    IN  {{}, SeedForeign} \cup { T \cup SeedForeign : T \in own }

InitRequests ==
    /\ clock = StartClock
    /\ pc = [p \in Procs |-> "idle"]
    /\ req = [p \in Procs |-> NoReq]
    /\ resp = [p \in Procs |-> NoResp]

InitMarks ==
    /\ InitRequests
    /\ internal_marks \in MarksSeeds
    /\ od_requests = {}
    /\ timetable_slots = {}
    /\ catalog = NoCatalog

NextMarks ==
    \E p \in Solo :
        \/ \E u \in MarksCallers, s \in Subjects, e \in EntryLists : submit_marks_call(p, u, s, e)
        \/ submit_marks_exec(p)
        \/ \E u \in MarksCallers, s \in Subjects, a \in MarkActions : approve_marks_call(p, u, s, a)
        \/ approve_marks_exec(p)
        \/ \E u \in MarksCallers, s \in Subjects : lock_marks_call(p, u, s)
        \/ lock_marks_exec(p)
        \/ \E u \in MarksCallers, allowed \in MarksAllowed : Denied(p, u, allowed)

SpecMarks == InitMarks /\ [][NextMarks]_vars

\* two approve requests of one tenant, one per process, in flight together
NextMarksRace ==
    \E p \in Procs :
        \/ /\ resp[p] = NoResp
           /\ \E u \in {"hod1", "adm1"}, s \in Subjects : approve_marks_call(p, u, s, "approve")
        \/ approve_marks_exec(p)

SpecMarksRace == InitMarks /\ [][NextMarksRace]_vars

-----------------------------------------------------------------------------
(* On-duty requests: apply / faculty action / HOD action *)

OdTypes == {"normal", "special", "medical", "sports"}
OdActions == {"approve", "reject", "cancel"}
Reasons == {None, "clash"}

\* batch_students.faculty_advisor_id: the designated advisor of each student
faculty_advisor_id(student_id) ==
    CASE student_id = "stu1" -> "fac1"
      [] student_id = "stu2" -> "fac2"
      [] OTHER -> "fac9"

\* the requests get_pending_od lists for a faculty member: those of their advisees
get_pending_od(table, u) ==
    { r \in table : /\ r.tenant_id = get_tenant_id(u)
                    /\ r.status = "pending_faculty"
                    /\ faculty_advisor_id(r.student_id) = u }

\* apply_od sending every type to the faculty first
initial_status_faculty_first(od_type) == "pending_faculty"

\* apply_od with every type going to the faculty first except 'special'
initial_status_special_only(od_type) ==
    IF od_type = "special" THEN "pending_hod" ELSE "pending_faculty"

\* the initial status apply_od picks from the OD type
initial_status(od_type) ==
    IF od_type \in {"special", "medical"} THEN "pending_hod" ELSE "pending_faculty"

\* the data dict apply_od inserts
OdData(tenant_id, user_id, subject_id, od_type) ==
    [tenant_id |-> tenant_id, student_id |-> user_id, subject_id |-> subject_id,
     od_type |-> od_type, status |-> initial_status(od_type)]

\* insert(data): the stored row, with a fresh id and the other columns null
NewOdRow(table, data) ==
    [id |-> Cardinality(table) + 1,
     tenant_id |-> data.tenant_id, student_id |-> data.student_id,
     subject_id |-> data.subject_id, od_type |-> data.od_type, status |-> data.status,
     faculty_action_by |-> None, faculty_action_at |-> NoTime,
     hod_action_by |-> None, hod_action_at |-> NoTime,
     rejection_reason |-> None]

\* the filter without its status condition
OdMatchAnyStatus(table, od_id, tenant_id, status) ==
    { r \in table : r.id = od_id /\ r.tenant_id = tenant_id }

\* .eq("id", od_id).eq("tenant_id", tenant_id).eq("status", status) on od_requests
OdMatch(table, od_id, tenant_id, status) ==
    { r \in table : r.id = od_id /\ r.tenant_id = tenant_id /\ r.status = status }

OdUpdated(table, od_id, tenant_id, status, update_data) ==
    { ApplyUpdate(r, update_data) : r \in OdMatch(table, od_id, tenant_id, status) }

OdAfterUpdate(table, od_id, tenant_id, status, update_data) ==
    (table \ OdMatch(table, od_id, tenant_id, status))
        \cup OdUpdated(table, od_id, tenant_id, status, update_data)

\* an approval that stamps the request and leaves it with the faculty
FacultyOdUpdateDataStampOnly(action, user_id, now, rejection_reason) ==
    IF action = "approve"
    THEN [status |-> "pending_faculty", faculty_action_by |-> user_id,
          faculty_action_at |-> now]
    ELSE [status |-> "rejected", faculty_action_by |-> user_id,
          faculty_action_at |-> now, rejection_reason |-> rejection_reason]

\* update_data of faculty_od_action
FacultyOdUpdateData(action, user_id, now, rejection_reason) ==
    IF action = "approve"
    THEN [status |-> "pending_hod", faculty_action_by |-> user_id,
          faculty_action_at |-> now]
    ELSE [status |-> "rejected", faculty_action_by |-> user_id,
          faculty_action_at |-> now, rejection_reason |-> rejection_reason]

\* hod_od_action built from a copy of the faculty handler's update_data
HodOdUpdateDataAsFaculty(action, user_id, now, rejection_reason) ==
    IF action = "approve"
    THEN [status |-> "pending_hod", hod_action_by |-> user_id, hod_action_at |-> now]
    ELSE [status |-> "rejected", hod_action_by |-> user_id, hod_action_at |-> now,
          rejection_reason |-> rejection_reason]

\* a reject that leaves the reason out of the update
HodOdUpdateDataNoReason(action, user_id, now, rejection_reason) ==
    IF action = "approve"
    THEN [status |-> "approved", hod_action_by |-> user_id, hod_action_at |-> now]
    ELSE [status |-> "rejected", hod_action_by |-> user_id, hod_action_at |-> now]

\* update_data of hod_od_action
HodOdUpdateData(action, user_id, now, rejection_reason) ==
    IF action = "approve"
    THEN [status |-> "approved", hod_action_by |-> user_id, hod_action_at |-> now]
    ELSE [status |-> "rejected", hod_action_by |-> user_id, hod_action_at |-> now,
          rejection_reason |-> rejection_reason]

\* body_subject is body.subject_id ("" when left out); any_sub is what the
\* look-up of a subject of the institution finds when it has to be filled in
apply_od_call(p, u, body_subject, any_sub, od_type) ==
    /\ pc[p] = "idle"
    /\ CanCall
    /\ Cardinality(od_requests) < MaxOdRows
    /\ Admitted({"student"}, u)
    /\ clock' = clock + 1
    /\ LET subject_id == IF body_subject = "" THEN any_sub ELSE body_subject
       IN  IF subject_id = None
           THEN /\ resp' = [resp EXCEPT ![p] = HTTPException(400)]
                /\ req' = [req EXCEPT ![p] = NoReq]
                /\ UNCHANGED pc
           ELSE /\ req' = [req EXCEPT ![p] =
                             [op |-> "apply", tenant_id |-> get_tenant_id(u),
                              user_id |-> u, od_type |-> od_type,
                              data |-> OdData(get_tenant_id(u), u, subject_id, od_type)]]
                /\ pc' = [pc EXCEPT ![p] = "exec"]
                /\ UNCHANGED resp
    /\ UNCHANGED <<internal_marks, od_requests, timetable_slots, catalog>>

apply_od_exec(p) ==
    /\ pc[p] = "exec"
    /\ req[p].op = "apply"
    /\ od_requests' = od_requests \cup {NewOdRow(od_requests, req[p].data)}
    /\ resp' = [resp EXCEPT ![p] = success_response({NewOdRow(od_requests, req[p].data)})]
    /\ pc' = [pc EXCEPT ![p] = "idle"]
    /\ UNCHANGED <<clock, req, internal_marks, timetable_slots, catalog>>

faculty_od_action_call(p, u, od_id, action, rejection_reason) ==
    /\ pc[p] = "idle"
    /\ CanCall
    /\ Admitted({"faculty"}, u)
    /\ clock' = clock + 1
    /\ IF action \in {"approve", "reject"}
       THEN /\ req' = [req EXCEPT ![p] =
                         [op |-> "faculty_action", tenant_id |-> get_tenant_id(u),
                          user_id |-> u, od_id |-> od_id, now |-> clock,
                          update_data |->
                              FacultyOdUpdateData(action, u, clock, rejection_reason)]]
            /\ pc' = [pc EXCEPT ![p] = "exec"]
            /\ UNCHANGED resp
       ELSE /\ resp' = [resp EXCEPT ![p] = HTTPException(400)]
            /\ req' = [req EXCEPT ![p] = NoReq]
            /\ UNCHANGED pc
    /\ UNCHANGED <<internal_marks, od_requests, timetable_slots, catalog>>

faculty_od_action_exec(p) ==
    /\ pc[p] = "exec"
    /\ req[p].op = "faculty_action"
    /\ od_requests' = OdAfterUpdate(od_requests, req[p].od_id, req[p].tenant_id,
                                    "pending_faculty", req[p].update_data)
    /\ resp' = [resp EXCEPT ![p] =
                  success_response(OdUpdated(od_requests, req[p].od_id, req[p].tenant_id,
                                             "pending_faculty", req[p].update_data))]
    /\ pc' = [pc EXCEPT ![p] = "idle"]
    /\ UNCHANGED <<clock, req, internal_marks, timetable_slots, catalog>>

hod_od_action_call(p, u, od_id, action, rejection_reason) ==
    /\ pc[p] = "idle"
    /\ CanCall
    /\ Admitted({"hod"}, u)
    /\ clock' = clock + 1
    /\ IF action \in {"approve", "reject"}
       THEN /\ req' = [req EXCEPT ![p] =
                         [op |-> "hod_action", tenant_id |-> get_tenant_id(u),
                          user_id |-> u, od_id |-> od_id, now |-> clock,
                          update_data |->
                              HodOdUpdateData(action, u, clock, rejection_reason)]]
            /\ pc' = [pc EXCEPT ![p] = "exec"]
            /\ UNCHANGED resp
       ELSE /\ resp' = [resp EXCEPT ![p] = HTTPException(400)]
            /\ req' = [req EXCEPT ![p] = NoReq]
            /\ UNCHANGED pc
    /\ UNCHANGED <<internal_marks, od_requests, timetable_slots, catalog>>

hod_od_action_exec(p) ==
    /\ pc[p] = "exec"
    /\ req[p].op = "hod_action"
    /\ od_requests' = OdAfterUpdate(od_requests, req[p].od_id, req[p].tenant_id,
                                    "pending_hod", req[p].update_data)
    /\ resp' = [resp EXCEPT ![p] =
                  success_response(OdUpdated(od_requests, req[p].od_id, req[p].tenant_id,
                                             "pending_hod", req[p].update_data))]
    /\ pc' = [pc EXCEPT ![p] = "idle"]
    /\ UNCHANGED <<clock, req, internal_marks, timetable_slots, catalog>>

\* Stored requests the service may start from: histories of apply, faculty and
\* HOD actions served at times 1 and 2, built with the handlers' own statements.
SeedOdOne == {NewOdRow({}, OdData("t1", "stu1", "sub1", "normal"))}
SeedOdTwo == SeedOdOne \cup {NewOdRow(SeedOdOne, OdData("t1", "stu2", "sub1", "medical"))}
SeedOdOpen == SeedOdTwo \cup {NewOdRow(SeedOdTwo, OdData("t2", "stu9", "sub1", "normal"))}
SeedOdForwarded ==
    OdAfterUpdate(SeedOdOpen, 1, "t1", "pending_faculty",
                  FacultyOdUpdateData("approve", "fac1", 1, None))
SeedOdApproved ==
    OdAfterUpdate(SeedOdForwarded, 1, "t1", "pending_hod",
                  HodOdUpdateData("approve", "hod1", 2, None))
SeedOdRejected ==
    OdAfterUpdate(
        OdAfterUpdate(SeedOdOpen, 1, "t1", "pending_faculty",
                      FacultyOdUpdateData("reject", "fac1", 1, "clash")),
        2, "t1", "pending_hod", HodOdUpdateData("reject", "hod1", 2, "clash"))

OdSeeds == {SeedOdTwo, SeedOdOpen, SeedOdForwarded, SeedOdApproved, SeedOdRejected}

\* the ids a caller may name: those stored and one that is not
OdIds(table) == 1..(Cardinality(table) + 1)

OdCallers == {"stu1", "fac1", "fac2", "fac9", "hod1", "adm1", "root", "lost"}

OdAllowed == {{"student"}, {"faculty"}, {"hod"}}

InitOd ==
    /\ InitRequests
    /\ internal_marks = {}
    /\ od_requests \in OdSeeds
    /\ timetable_slots = {}
    /\ catalog = NoCatalog

NextOd ==
    \E p \in Solo :
        \/ \E u \in OdCallers, bs \in {"sub1", ""}, any \in {"sub1", None}, t \in OdTypes :
              apply_od_call(p, u, bs, any, t)
        \/ apply_od_exec(p)
        \/ \E u \in OdCallers, i \in OdIds(od_requests), a \in OdActions, r \in Reasons :
              faculty_od_action_call(p, u, i, a, r)
        \/ faculty_od_action_exec(p)
        \/ \E u \in OdCallers, i \in OdIds(od_requests), a \in OdActions, r \in Reasons :
              hod_od_action_call(p, u, i, a, r)
        \/ hod_od_action_exec(p)
        \/ \E u \in OdCallers, allowed \in OdAllowed : Denied(p, u, allowed)

SpecOd == InitOd /\ [][NextOd]_vars

\* two staff members acting on stored requests at the same time, one request each
InitOdRace ==
    /\ InitRequests
    /\ internal_marks = {}
    /\ od_requests \in {SeedOdTwo, SeedOdForwarded}
    /\ timetable_slots = {}
    /\ catalog = NoCatalog

NextOdRace ==
    \E p \in Procs :
        \/ /\ resp[p] = NoResp
           /\ req[p] = NoReq
           /\ \E u \in {"fac1", "fac2"}, i \in {1, 2}, a \in {"approve", "reject"},
                 r \in Reasons :
                 faculty_od_action_call(p, u, i, a, r)
        \/ faculty_od_action_exec(p)
        \/ /\ resp[p] = NoResp
           /\ req[p] = NoReq
           /\ \E i \in {1, 2}, a \in {"approve", "reject"}, r \in Reasons :
                 hod_od_action_call(p, "hod1", i, a, r)
        \/ hod_od_action_exec(p)

SpecOdRace == InitOdRace /\ [][NextOdRace]_vars

-----------------------------------------------------------------------------
(* Timetable: manual slot creation and deletion, greedy generation *)

\* days = [1, 2, 3, 4, 5, 6] (Mon-Sat)
LastDay == 6

Min(S) == CHOOSE x \in S : \A y \in S : x <= y
Max(S) == CHOOSE x \in S : \A y \in S : x >= y

\* a store whose constraints leave the room out
UniqueViolationNoRoom(table, row) ==
    \E r \in table :
        /\ r.day_of_week = row.day_of_week
        /\ r.period_number = row.period_number
        /\ \/ r.faculty_id = row.faculty_id
           \/ r.batch_id = row.batch_id

\* Store: the uniqueness constraints of timetable_slots on (faculty, day, period),
\* (batch, day, period) and, for a non-null room, (room, day, period)
UniqueViolation(table, row) ==
    \E r \in table :
        /\ r.day_of_week = row.day_of_week
        /\ r.period_number = row.period_number
        /\ \/ r.faculty_id = row.faculty_id
           \/ r.batch_id = row.batch_id
           \/ r.classroom_id # None /\ r.classroom_id = row.classroom_id

\* insert(data): the stored row, with a fresh id
NewSlotRow(table, data) ==
    [id |-> IF table = {} THEN 1 ELSE Max({ r.id : r \in table }) + 1,
     tenant_id |-> data.tenant_id, batch_id |-> data.batch_id,
     subject_id |-> data.subject_id, faculty_id |-> data.faculty_id,
     classroom_id |-> data.classroom_id, day_of_week |-> data.day_of_week,
     period_number |-> data.period_number]

\* period numbers of a set of period_templates rows, .order("period_number")
RECURSIVE OrderedPeriods(_)
OrderedPeriods(rows) ==
    IF rows = {} THEN <<>>
    ELSE LET first == CHOOSE r \in rows :
                          \A x \in rows : r.period_number <= x.period_number
         IN  <<first.period_number>> \o OrderedPeriods(rows \ {first})

\* the tenant's non-break period templates, or every non-break template when
\* the tenant has none
GenPeriods(cat, tenant_id) ==
    LET own == { t \in cat.period_templates : t.tenant_id = tenant_id /\ ~t.is_break }
        all == { t \in cat.period_templates : ~t.is_break }
    IN  IF own # {} THEN OrderedPeriods(own) ELSE OrderedPeriods(all)

\* the rooms smallest first
RECURSIVE OrderedRoomsAscending(_)
OrderedRoomsAscending(rows) ==
    IF rows = {} THEN <<>>
    ELSE LET first == CHOOSE r \in rows : \A x \in rows : r.capacity <= x.capacity
         IN  <<first.id>> \o OrderedRoomsAscending(rows \ {first})

\* ids of a set of classrooms, .order("capacity", desc=True)
RECURSIVE OrderedRooms(_)
OrderedRooms(rows) ==
    IF rows = {} THEN <<>>
    ELSE LET first == CHOOSE r \in rows : \A x \in rows : r.capacity >= x.capacity
         IN  <<first.id>> \o OrderedRooms(rows \ {first})

GenRooms(cat, tenant_id) ==
    OrderedRooms({ c \in cat.classrooms : c.tenant_id = tenant_id /\ c.is_available })

\* ids of the tenant's subjects of a semester
GenSubjects(cat, tenant_id, semester) ==
    { x.id : x \in { y \in cat.subjects : y.tenant_id = tenant_id /\ y.semester = semester } }

\* the tenant's faculty_assignments of these subjects, in retrieval order
GenAssignments(cat, tenant_id, subject_ids) ==
    SelectSeq(cat.faculty_assignments,
              LAMBDA a : a.tenant_id = tenant_id /\ a.subject_id \in subject_ids)

\* the occupancy index built from the tenant's stored slots
FacultyOccupied(existing) ==
    { <<x.faculty_id, x.day_of_week, x.period_number>> : x \in existing }
RoomOccupied(existing) ==
    { <<x.classroom_id, x.day_of_week, x.period_number>> :
          x \in { y \in existing : y.classroom_id # None } }
BatchOccupied(existing) ==
    { <<x.batch_id, x.day_of_week, x.period_number>> : x \in existing }

GenDone == [done |-> TRUE]

\* a pass that stops an assignment one slot after its hours
RECURSIVE GenScanOneMore(_, _, _, _, _)
GenScanOneMore(g, ai, day, pi, allocated) ==
    IF ai > Len(g.assignments) THEN GenDone
    ELSE IF allocated > g.assignments[ai].hours_per_week \/ day > LastDay
         THEN GenScanOneMore(g, ai + 1, 1, 1, 0)
    ELSE IF pi > Len(g.periods) THEN GenScanOneMore(g, ai, day + 1, 1, allocated)
    ELSE IF \/ <<g.assignments[ai].faculty_id, day, g.periods[pi]>> \in g.faculty_occupied
            \/ <<g.batch_id, day, g.periods[pi]>> \in g.batch_occupied
         THEN GenScanOneMore(g, ai, day, pi + 1, allocated)
    ELSE [done |-> FALSE, ai |-> ai, day |-> day, pi |-> pi, allocated |-> allocated]

\* The nested loops of the greedy pass from position (ai, day, pi) on: the next
\* (assignment, day, period) at which the run attempts an insert, or GenDone.
RECURSIVE GenScan(_, _, _, _, _)
GenScan(g, ai, day, pi, allocated) ==
    IF ai > Len(g.assignments) THEN GenDone
    ELSE IF allocated >= g.assignments[ai].hours_per_week \/ day > LastDay
         THEN GenScan(g, ai + 1, 1, 1, 0)
    ELSE IF pi > Len(g.periods) THEN GenScan(g, ai, day + 1, 1, allocated)
    ELSE IF \/ <<g.assignments[ai].faculty_id, day, g.periods[pi]>> \in g.faculty_occupied
            \/ <<g.batch_id, day, g.periods[pi]>> \in g.batch_occupied
         THEN GenScan(g, ai, day, pi + 1, allocated)
    ELSE [done |-> FALSE, ai |-> ai, day |-> day, pi |-> pi, allocated |-> allocated]

\* the first room, largest first, the index does not show as taken
GenRoom(g, day, pnum) ==
    LET free == { i \in 1..Len(g.rooms) : <<g.rooms[i], day, pnum>> \notin g.room_occupied }
    IN  IF free = {} THEN None ELSE g.rooms[Min(free)]

\* slot_data of the candidate the scan stopped at
GenSlotData(g, at) ==
    [tenant_id |-> g.tenant_id, batch_id |-> g.batch_id,
     subject_id |-> g.assignments[at.ai].subject_id,
     faculty_id |-> g.assignments[at.ai].faculty_id,
     classroom_id |-> GenRoom(g, at.day, g.periods[at.pi]),
     day_of_week |-> at.day, period_number |-> g.periods[at.pi]]

\* a run that forgets to count the slot it stored
GenCommittedUncounted(g, at, row) ==
    [g EXCEPT !.faculty_occupied = @ \cup {<<row.faculty_id, row.day_of_week, row.period_number>>},
              !.batch_occupied = @ \cup {<<row.batch_id, row.day_of_week, row.period_number>>},
              !.room_occupied = IF row.classroom_id # None
                                THEN @ \cup {<<row.classroom_id, row.day_of_week, row.period_number>>}
                                ELSE @,
              !.created = @ \cup {row},
              !.ai = at.ai, !.day = at.day, !.pi = at.pi + 1,
              !.allocated = at.allocated]

\* the run's locals after the insert succeeded
GenCommitted(g, at, row) ==
    [g EXCEPT !.faculty_occupied = @ \cup {<<row.faculty_id, row.day_of_week, row.period_number>>},
              !.batch_occupied = @ \cup {<<row.batch_id, row.day_of_week, row.period_number>>},
              !.room_occupied = IF row.classroom_id # None
                                THEN @ \cup {<<row.classroom_id, row.day_of_week, row.period_number>>}
                                ELSE @,
              !.created = @ \cup {row},
              !.ai = at.ai, !.day = at.day, !.pi = at.pi + 1,
              !.allocated = at.allocated + 1]

\* a run that tries the rejected pair again
GenSkippedRetry(g, at) ==
    [g EXCEPT !.ai = at.ai, !.day = at.day, !.pi = at.pi, !.allocated = at.allocated]

\* the run's locals after the insert raised: the except clause continues
GenSkipped(g, at) ==
    [g EXCEPT !.ai = at.ai, !.day = at.day, !.pi = at.pi + 1, !.allocated = at.allocated]

\* Store: the words of the error raised for a uniqueness violation
StoreUniqueError == <<"duplicate", "key", "value", "violates", "unique", "constraint">>

\* a handler that re-raises every insert error
conflict_status_reraise(error_msg) == 500

\* except Exception as e: 409 when the message names a uniqueness violation,
\* otherwise the error is raised again
conflict_status(error_msg) ==
    IF \E i \in 1..Len(error_msg) : error_msg[i] \in {"unique", "duplicate"}
    THEN 409
    ELSE 500

create_timetable_slot_call(p, u, body) ==
    /\ pc[p] = "idle"
    /\ CanCall
    /\ Admitted({"admin"}, u)
    /\ clock' = clock + 1
    /\ req' = [req EXCEPT ![p] =
                 [op |-> "create_slot", tenant_id |-> get_tenant_id(u),
                  data |-> [tenant_id |-> get_tenant_id(u), batch_id |-> body.batch_id,
                            subject_id |-> body.subject_id, faculty_id |-> body.faculty_id,
                            classroom_id |-> body.classroom_id,
                            day_of_week |-> body.day_of_week,
                            period_number |-> body.period_number]]]
    /\ pc' = [pc EXCEPT ![p] = "exec"]
    /\ UNCHANGED <<resp, internal_marks, od_requests, timetable_slots, catalog>>

create_timetable_slot_exec(p) ==
    /\ pc[p] = "exec"
    /\ req[p].op = "create_slot"
    /\ IF UniqueViolation(timetable_slots, req[p].data)
       THEN /\ resp' = [resp EXCEPT ![p] = HTTPException(conflict_status(StoreUniqueError))]
            /\ UNCHANGED timetable_slots
       ELSE /\ timetable_slots' =
                  timetable_slots \cup {NewSlotRow(timetable_slots, req[p].data)}
            /\ resp' = [resp EXCEPT ![p] =
                          success_response({NewSlotRow(timetable_slots, req[p].data)})]
    /\ pc' = [pc EXCEPT ![p] = "idle"]
    /\ UNCHANGED <<clock, req, internal_marks, od_requests, catalog>>

delete_timetable_slot_call(p, u, slot_id) ==
    /\ pc[p] = "idle"
    /\ CanCall
    /\ Admitted({"admin"}, u)
    /\ clock' = clock + 1
    /\ req' = [req EXCEPT ![p] =
                 [op |-> "delete_slot", tenant_id |-> get_tenant_id(u), slot_id |-> slot_id]]
    /\ pc' = [pc EXCEPT ![p] = "exec"]
    /\ UNCHANGED <<resp, internal_marks, od_requests, timetable_slots, catalog>>

delete_timetable_slot_exec(p) ==
    /\ pc[p] = "exec"
    /\ req[p].op = "delete_slot"
    /\ timetable_slots' =
          { r \in timetable_slots :
                ~ (r.id = req[p].slot_id /\ r.tenant_id = req[p].tenant_id) }
    /\ resp' = [resp EXCEPT ![p] = success_response({})]
    /\ pc' = [pc EXCEPT ![p] = "idle"]
    /\ UNCHANGED <<clock, req, internal_marks, od_requests, catalog>>

\* the batch look-up; 404 when the tenant has no such batch
generate_timetable_call(p, u, batch_id, force_regenerate) ==
    /\ pc[p] = "idle"
    /\ CanCall
    /\ Admitted({"admin"}, u)
    /\ clock' = clock + 1
    /\ LET found == { b \in catalog.batches :
                         b.id = batch_id /\ b.tenant_id = get_tenant_id(u) }
       IN  IF found = {}
           THEN /\ resp' = [resp EXCEPT ![p] = HTTPException(404)]
                /\ req' = [req EXCEPT ![p] = NoReq]
                /\ UNCHANGED pc
           ELSE /\ req' = [req EXCEPT ![p] =
                             [op |-> "generate", tenant_id |-> get_tenant_id(u),
                              batch_id |-> batch_id,
                              force_regenerate |-> force_regenerate,
                              semester |-> (CHOOSE b \in found : TRUE).semester]]
                /\ pc' = [pc EXCEPT ![p] = "gen_clear"]
                /\ UNCHANGED resp
    /\ UNCHANGED <<internal_marks, od_requests, timetable_slots, catalog>>

\* a clear that deletes the tenant's slots of every batch
SlotsAfterClearEveryBatch(table, tenant_id, batch_id, force_regenerate) ==
    IF force_regenerate
    THEN { r \in table : r.tenant_id # tenant_id }
    ELSE table

\* a run that never clears
SlotsKept(table, tenant_id, batch_id, force_regenerate) == table

\* if body.force_regenerate: delete the tenant's slots of the batch
SlotsAfterClear(table, tenant_id, batch_id, force_regenerate) ==
    IF force_regenerate
    THEN { r \in table : ~ (r.tenant_id = tenant_id /\ r.batch_id = batch_id) }
    ELSE table

\* the delete of the batch's slots when regenerating, then the reads of
\* subjects, assignments, period templates and classrooms
generate_timetable_clear(p) ==
    /\ pc[p] = "gen_clear"
    /\ timetable_slots' =
          SlotsAfterClear(timetable_slots, req[p].tenant_id, req[p].batch_id,
                          req[p].force_regenerate)
    /\ LET subject_ids == GenSubjects(catalog, req[p].tenant_id, req[p].semester)
           periods == GenPeriods(catalog, req[p].tenant_id)
       IN  IF subject_ids = {} \/ periods = <<>>
           THEN /\ resp' = [resp EXCEPT ![p] = HTTPException(400)]
                /\ pc' = [pc EXCEPT ![p] = "idle"]
                /\ UNCHANGED req
           ELSE /\ req' = [req EXCEPT ![p] =
                             [op |-> "generate", tenant_id |-> req[p].tenant_id,
                              batch_id |-> req[p].batch_id,
                              force_regenerate |-> req[p].force_regenerate,
                              assignments |->
                                  GenAssignments(catalog, req[p].tenant_id, subject_ids),
                              periods |-> periods,
                              rooms |-> GenRooms(catalog, req[p].tenant_id)]]
                /\ pc' = [pc EXCEPT ![p] = "gen_read"]
                /\ UNCHANGED resp
    /\ UNCHANGED <<clock, internal_marks, od_requests, catalog>>

\* the read of the tenant's stored slots into the occupancy index
generate_timetable_read(p) ==
    /\ pc[p] = "gen_read"
    /\ LET existing == { r \in timetable_slots : r.tenant_id = req[p].tenant_id }
       IN  req' = [req EXCEPT ![p] =
                     [op |-> "generate", tenant_id |-> req[p].tenant_id,
                      batch_id |-> req[p].batch_id,
                      force_regenerate |-> req[p].force_regenerate,
                      assignments |-> req[p].assignments,
                      periods |-> req[p].periods, rooms |-> req[p].rooms,
                      faculty_occupied |-> FacultyOccupied(existing),
                      room_occupied |-> RoomOccupied(existing),
                      batch_occupied |-> BatchOccupied(existing),
                      created |-> {}, ai |-> 1, day |-> 1, pi |-> 1, allocated |-> 0]]
    /\ pc' = [pc EXCEPT ![p] = "gen_loop"]
    /\ UNCHANGED <<clock, resp, internal_marks, od_requests, timetable_slots, catalog>>

\* the run aborting on a rejected insert instead of continuing
GenOnRejectAbort(p, at) ==
    /\ resp' = [resp EXCEPT ![p] = HTTPException(500)]
    /\ pc' = [pc EXCEPT ![p] = "idle"]
    /\ UNCHANGED <<req, timetable_slots>>

\* except Exception: continue
GenOnReject(p, at) ==
    /\ req' = [req EXCEPT ![p] = GenSkipped(req[p], at)]
    /\ UNCHANGED <<pc, resp, timetable_slots>>

\* a run that reports an error when an assignment is left short of its hours
GenResponseStrict(g) ==
    IF \E i \in 1..Len(g.assignments) :
           Cardinality({ x \in g.created : x.subject_id = g.assignments[i].subject_id
                                             /\ x.faculty_id = g.assignments[i].faculty_id })
               < g.assignments[i].hours_per_week
    THEN HTTPException(422)
    ELSE success_response([allocated_slots |-> Cardinality(g.created),
                           total_assignments |-> Len(g.assignments),
                           slots |-> g.created])

\* the response of a run whose loops have ended
GenResponse(g) ==
    success_response([allocated_slots |-> Cardinality(g.created),
                      total_assignments |-> Len(g.assignments),
                      slots |-> g.created])

\* the greedy pass up to and including its next insert, or its return
generate_timetable_loop(p) ==
    /\ pc[p] = "gen_loop"
    /\ \E g \in {req[p]} :
       \E at \in {GenScan(g, g.ai, g.day, g.pi, g.allocated)} :
           IF at.done
           THEN /\ resp' = [resp EXCEPT ![p] = GenResponse(g)]
                /\ pc' = [pc EXCEPT ![p] = "idle"]
                /\ UNCHANGED <<req, timetable_slots>>
           ELSE \E slot_data \in {GenSlotData(g, at)} :
                IF UniqueViolation(timetable_slots, slot_data)
                THEN GenOnReject(p, at)
                ELSE \E row \in {NewSlotRow(timetable_slots, slot_data)} :
                         /\ timetable_slots' = timetable_slots \cup {row}
                         /\ req' = [req EXCEPT ![p] = GenCommitted(g, at, row)]
                         /\ UNCHANGED <<pc, resp>>
    /\ UNCHANGED <<clock, internal_marks, od_requests, catalog>>

\* The tables the timetable handlers read
Campus ==
    [batches |-> {[id |-> "b1", tenant_id |-> "t1", semester |-> 1],
                  [id |-> "b2", tenant_id |-> "t1", semester |-> 1]},
     subjects |-> {[id |-> "sub1", tenant_id |-> "t1", semester |-> 1],
                   [id |-> "sub2", tenant_id |-> "t1", semester |-> 1]},
     faculty_assignments |->
         <<[tenant_id |-> "t1", faculty_id |-> "fac1", subject_id |-> "sub1",
            hours_per_week |-> 2],
           [tenant_id |-> "t1", faculty_id |-> "fac2", subject_id |-> "sub2",
            hours_per_week |-> 1]>>,
     period_templates |->
         {[tenant_id |-> "t1", period_number |-> 1, is_break |-> FALSE],
          [tenant_id |-> "t1", period_number |-> 2, is_break |-> FALSE],
          [tenant_id |-> "t1", period_number |-> 3, is_break |-> TRUE]},
     classrooms |->
         {[id |-> "r1", tenant_id |-> "t1", capacity |-> 60, is_available |-> TRUE],
          [id |-> "r2", tenant_id |-> "t1", capacity |-> 40, is_available |-> FALSE]}]

Catalogs == {Campus}

\* bodies of manual slot creation
SlotBodies ==
    [batch_id : {"b1", "b2"}, subject_id : {"sub1"}, faculty_id : {"fac1", "fac2"},
     classroom_id : {"r1", None}, day_of_week : {1}, period_number : {1, 2}]

TimetableCallers == {"adm1", "hod1", "root", "lost"}

\* the ids a caller may name: those stored and one that is not
SlotIds(table) == { r.id : r \in table } \cup {0}

\* Stored slots the handlers can have left behind
SeedSlotOne ==
    {NewSlotRow({}, [tenant_id |-> "t1", batch_id |-> "b2", subject_id |-> "sub1",
                     faculty_id |-> "fac1", classroom_id |-> "r1",
                     day_of_week |-> 1, period_number |-> 1])}

SeedSlotTwo ==
    SeedSlotOne \cup
    {NewSlotRow(SeedSlotOne,
                [tenant_id |-> "t1", batch_id |-> "b1", subject_id |-> "sub1",
                 faculty_id |-> "fac2", classroom_id |-> None,
                 day_of_week |-> 1, period_number |-> 1])}

SlotSeeds == {{}, SeedSlotOne, SeedSlotTwo}

InitTimetable ==
    /\ InitRequests
    /\ internal_marks = {}
    /\ od_requests = {}
    /\ timetable_slots \in SlotSeeds
    /\ catalog \in Catalogs

NextTimetable ==
    \E p \in Solo :
        \/ \E u \in TimetableCallers, body \in SlotBodies : create_timetable_slot_call(p, u, body)
        \/ create_timetable_slot_exec(p)
        \/ \E u \in TimetableCallers, i \in SlotIds(timetable_slots) :
              delete_timetable_slot_call(p, u, i)
        \/ delete_timetable_slot_exec(p)
        \/ \E u \in TimetableCallers, b \in {"b1", "b2", "b0"}, f \in BOOLEAN :
              generate_timetable_call(p, u, b, f)
        \/ generate_timetable_clear(p)
        \/ generate_timetable_read(p)
        \/ generate_timetable_loop(p)
        \/ \E u \in TimetableCallers : Denied(p, u, {"admin"})

SpecTimetable == InitTimetable /\ [][NextTimetable]_vars

\* Two admins of one tenant generating at the same time, one request each
InitTimetableRace ==
    /\ InitRequests
    /\ internal_marks = {}
    /\ od_requests = {}
    /\ timetable_slots \in {{}, SeedSlotOne}
    /\ catalog \in Catalogs

NextTimetableRace ==
    \E p \in Procs :
        \/ /\ resp[p] = NoResp
           /\ req[p] = NoReq
           /\ \E b \in {"b1", "b2"}, f \in BOOLEAN : generate_timetable_call(p, "adm1", b, f)
        \/ generate_timetable_clear(p)
        \/ generate_timetable_read(p)
        \/ generate_timetable_loop(p)

SpecTimetableRace == InitTimetableRace /\ [][NextTimetableRace]_vars

-----------------------------------------------------------------------------
(* Generation against differently configured institutions *)

\* no subject is set up for the batches' semester
CampusNoSubjects == [Campus EXCEPT !.subjects = {}]

\* only the break is set up as a period, in every tenant
CampusNoPeriods ==
    [Campus EXCEPT !.period_templates = { t \in @ : t.is_break }]

\* the tenant has set up no period of its own; another tenant has
CampusBorrowedPeriods ==
    [Campus EXCEPT !.period_templates =
        {[tenant_id |-> "t2", period_number |-> 2, is_break |-> FALSE]}]

\* one teaching period a day; the two assignments ask for 4 + 3 hours of the
\* batch's 6 cells
CampusTight ==
    [Campus EXCEPT
        !.faculty_assignments =
            <<[tenant_id |-> "t1", faculty_id |-> "fac1", subject_id |-> "sub1",
               hours_per_week |-> 4],
              [tenant_id |-> "t1", faculty_id |-> "fac2", subject_id |-> "sub2",
               hours_per_week |-> 3]>>,
        !.period_templates =
            {[tenant_id |-> "t1", period_number |-> 1, is_break |-> FALSE]}]

\* two rooms in use and a larger one that is not available
CampusTwoRooms ==
    [Campus EXCEPT !.classrooms =
        {[id |-> "r1", tenant_id |-> "t1", capacity |-> 60, is_available |-> TRUE],
         [id |-> "r2", tenant_id |-> "t1", capacity |-> 40, is_available |-> TRUE],
         [id |-> "r3", tenant_id |-> "t1", capacity |-> 80, is_available |-> FALSE]}]

GenCatalogs ==
    {Campus, CampusNoSubjects, CampusNoPeriods, CampusBorrowedPeriods, CampusTight,
     CampusTwoRooms}

\* a third stored slot, of the other batch
SeedSlotThree ==
    SeedSlotTwo \cup
    {NewSlotRow(SeedSlotTwo,
                [tenant_id |-> "t1", batch_id |-> "b2", subject_id |-> "sub2",
                 faculty_id |-> "fac2", classroom_id |-> "r1",
                 day_of_week |-> 1, period_number |-> 2])}

InitGenerate ==
    /\ InitRequests
    /\ internal_marks = {}
    /\ od_requests = {}
    /\ timetable_slots \in SlotSeeds \cup {SeedSlotThree}
    /\ catalog \in GenCatalogs

NextGenerate ==
    \E p \in Solo :
        \/ \E u \in {"adm1", "adm9"}, b \in {"b1", "b2", "b0"}, f \in BOOLEAN :
              generate_timetable_call(p, u, b, f)
        \/ generate_timetable_clear(p)
        \/ generate_timetable_read(p)
        \/ generate_timetable_loop(p)

SpecGenerate == InitGenerate /\ [][NextGenerate]_vars

-----------------------------------------------------------------------------
(* Generation for one assignment of four hours a week *)

MaxPeriods == 6

\* the number of the k-th teaching period: number 3 is the break
PeriodNumber(k) == IF k < 3 THEN k ELSE k + 1

\* an institution with one assignment of 4 hours and P teaching periods a day
CampusFour(P) ==
    [Campus EXCEPT
        !.subjects = {[id |-> "sub1", tenant_id |-> "t1", semester |-> 1]},
        !.faculty_assignments =
            <<[tenant_id |-> "t1", faculty_id |-> "fac1", subject_id |-> "sub1",
               hours_per_week |-> 4]>>,
        !.period_templates =
            { [tenant_id |-> "t1", period_number |-> PeriodNumber(k), is_break |-> FALSE] :
                  k \in 1..P }
            \cup {[tenant_id |-> "t1", period_number |-> 3, is_break |-> TRUE]}]

InitGreedy ==
    /\ InitRequests
    /\ internal_marks = {}
    /\ od_requests = {}
    /\ timetable_slots = {}
    /\ catalog \in { CampusFour(P) : P \in 1..MaxPeriods }

NextGreedy ==
    \E p \in Solo :
        \/ \E b \in {"b1", "b2"}, f \in BOOLEAN : generate_timetable_call(p, "adm1", b, f)
        \/ generate_timetable_clear(p)
        \/ generate_timetable_read(p)
        \/ generate_timetable_loop(p)

SpecGreedy == InitGreedy /\ [][NextGreedy]_vars

-----------------------------------------------------------------------------
(* Generation when the week is too short for the hours asked *)

InitPartial ==
    /\ InitRequests
    /\ internal_marks = {}
    /\ od_requests = {}
    /\ timetable_slots \in {{}, SeedSlotOne}
    /\ catalog = CampusTight

\* two admins generating at the same time, one request each
NextPartial ==
    \E p \in Procs :
        \/ /\ resp[p] = NoResp
           /\ req[p] = NoReq
           /\ \E b \in {"b1", "b2"} : generate_timetable_call(p, "adm1", b, FALSE)
        \/ generate_timetable_clear(p)
        \/ generate_timetable_read(p)
        \/ generate_timetable_loop(p)

SpecPartial == InitPartial /\ [][NextPartial]_vars

\* a handler that was called runs on: every statement of a started run is
\* executed and every store call returns
RunStep(p) ==
    generate_timetable_clear(p) \/ generate_timetable_read(p) \/ generate_timetable_loop(p)

SpecPartialFair == SpecPartial /\ \A p \in Procs : WF_vars(RunStep(p))

-----------------------------------------------------------------------------
(* Manual creation and generation at the same time *)

InitConflict ==
    /\ InitRequests
    /\ internal_marks = {}
    /\ od_requests = {}
    /\ timetable_slots \in {{}, SeedSlotOne}
    /\ catalog = Campus

\* two admins of one tenant, one request each
NextConflict ==
    \E p \in Procs :
        \/ /\ resp[p] = NoResp
           /\ req[p] = NoReq
           /\ \/ \E b \in {"b1", "b2"} : generate_timetable_call(p, "adm1", b, FALSE)
              \/ \E body \in SlotBodies : create_timetable_slot_call(p, "adm1", body)
        \/ create_timetable_slot_exec(p)
        \/ generate_timetable_clear(p)
        \/ generate_timetable_read(p)
        \/ generate_timetable_loop(p)

SpecConflict == InitConflict /\ [][NextConflict]_vars

-----------------------------------------------------------------------------
(* The role guard of all nine operations, on one store *)

\* one caller of each role, and the super admin
AccessCallers == {"fac1", "hod1", "adm1", "stu1", "root"}

\* the allowed_roles lists the handlers pass to require_role
AccessAllowed == {{"faculty"}, {"hod", "admin"}, {"admin"}, {"student"}, {"hod"}}

AccessEntries == { e \in EntryLists : DOMAIN e = {"stu1"} }

InitAccess ==
    /\ InitRequests
    /\ internal_marks = SeedApprovedMixed \cup SeedForeign
    /\ od_requests = SeedOdForwarded
    /\ timetable_slots = SeedSlotOne
    /\ catalog = Campus

NextAccess ==
    \E p \in Solo :
        \/ \E u \in AccessCallers, e \in AccessEntries : submit_marks_call(p, u, "sub1", e)
        \/ submit_marks_exec(p)
        \/ \E u \in AccessCallers, a \in {"approve", "reject"} :
              approve_marks_call(p, u, "sub1", a)
        \/ approve_marks_exec(p)
        \/ \E u \in AccessCallers : lock_marks_call(p, u, "sub1")
        \/ lock_marks_exec(p)
        \/ \E u \in AccessCallers, t \in {"normal", "medical"} :
              apply_od_call(p, u, "sub1", "sub1", t)
        \/ apply_od_exec(p)
        \/ \E u \in AccessCallers, i \in {1, 2} : faculty_od_action_call(p, u, i, "approve", None)
        \/ faculty_od_action_exec(p)
        \/ \E u \in AccessCallers, i \in {1, 2} : hod_od_action_call(p, u, i, "approve", None)
        \/ hod_od_action_exec(p)
        \/ \E u \in AccessCallers, body \in { b \in SlotBodies : b.period_number = 2 } :
              create_timetable_slot_call(p, u, body)
        \/ create_timetable_slot_exec(p)
        \/ \E u \in AccessCallers : delete_timetable_slot_call(p, u, 1)
        \/ delete_timetable_slot_exec(p)
        \/ \E u \in AccessCallers, f \in BOOLEAN : generate_timetable_call(p, u, "b1", f)
        \/ generate_timetable_clear(p)
        \/ generate_timetable_read(p)
        \/ generate_timetable_loop(p)
        \/ \E u \in AccessCallers, allowed \in AccessAllowed : Denied(p, u, allowed)

SpecAccess == InitAccess /\ [][NextAccess]_vars

-----------------------------------------------------------------------------
(* Properties of the marks workflow *)

SameSubject(r, q) == r.tenant_id = q.tenant_id /\ r.subject_id = q.subject_id

Served(p, ops) == pc[p] = "idle" /\ req[p].op \in ops /\ resp[p].code = 200

\* C1: once a marks row is locked, no step changes its status, marks or
\* max_marks (no transition leaves 'locked').
C1_LockedRowsImmutable ==
    [][\A r \in internal_marks :
          r.status = "locked" =>
              \E n \in internal_marks' :
                  /\ MarksKey(n) = MarksKey(r)
                  /\ n.status = "locked"
                  /\ n.marks = r.marks
                  /\ n.max_marks = r.max_marks]_vars

LockHit(p) ==
    { r \in internal_marks : SameSubject(r, req[p]) /\ r.status = "approved" }

LockedBy(p, r) ==
    [r EXCEPT !.status = "locked", !.locked_by = req[p].user_id, !.locked_at = req[p].now]

C4_LockStep(p) ==
    /\ internal_marks' = (internal_marks \ LockHit(p)) \cup { LockedBy(p, r) : r \in LockHit(p) }
    /\ resp'[p] = [code |-> 200, data |-> { LockedBy(p, r) : r \in LockHit(p) }]
    /\ ~ \E n \in internal_marks' : SameSubject(n, req[p]) /\ n.status = "approved"

\* C4: a lock of (tenant, subject) turns exactly the 'approved' rows of that
\* (tenant, subject) into 'locked' rows stamped with the locker and the time of
\* the call, leaves every other row as it was, reports the rows it locked, and
\* leaves no 'approved' row behind, so that a second lock right after it
\* affects zero rows.
C4_LockExactlyApproved ==
    [][\A p \in Procs : lock_marks_exec(p) => C4_LockStep(p)]_vars

\* a lock was served that locked some row and left a row of the same subject
\* in another status untouched
C4_Witness ==
    \E p \in Procs :
        /\ Served(p, {"lock"})
        /\ resp[p].data # {}
        /\ \E r \in internal_marks :
              SameSubject(r, req[p]) /\ r.status \in {"submitted", "draft"}

ApproveHit(p) ==
    { r \in internal_marks : SameSubject(r, req[p]) /\ r.status = "submitted" }

ApprovedBy(p, r) ==
    [r EXCEPT !.status = "approved", !.approved_by = req[p].user_id,
              !.approved_at = req[p].now]

C5_ApproveStep(p) ==
    /\ internal_marks' =
           (internal_marks \ ApproveHit(p)) \cup { ApprovedBy(p, r) : r \in ApproveHit(p) }
    /\ resp'[p] = [code |-> 200, data |-> { ApprovedBy(p, r) : r \in ApproveHit(p) }]
    /\ ~ \E n \in internal_marks' : SameSubject(n, req[p]) /\ n.status = "submitted"

\* C5: an approve of (tenant, subject) turns every 'submitted' row of that
\* (tenant, subject) into an 'approved' row carrying the one approver id and the
\* one timestamp of the call, leaves every other row as it was, succeeds, and
\* leaves no 'submitted' row behind, so that a following approve affects zero
\* rows.
C5_ApproveAllSubmitted ==
    [][\A p \in Procs :
          (approve_marks_exec(p) /\ req[p].op = "approve") => C5_ApproveStep(p)]_vars

\* an approve was served that approved the rows of two students at once while
\* a row in another status stayed in the table
C5_Witness ==
    \E p \in Procs :
        /\ Served(p, {"approve"})
        /\ Cardinality(resp[p].data) = 2
        /\ \E r \in internal_marks : r.status = "submitted"

ReportedKeys(p) == { MarksKey(r) : r \in resp[p].data }

ApprovedInRun(t, s) ==
    { MarksKey(r) : r \in { x \in internal_marks :
                               /\ x.tenant_id = t /\ x.subject_id = s
                               /\ x.status = "approved"
                               /\ x.approved_at >= StartClock } }

\* C6: when two approve calls for one (tenant, subject) were in flight
\* together and both have returned, no row is reported by both, the rows they
\* report together are the rows approved by the two calls, and no row of the
\* subject is left 'submitted'.
C6_ConcurrentApproveDisjoint ==
    (/\ Served(1, {"approve"}) /\ Served(2, {"approve"})
     /\ SameSubject(req[1], req[2]))
    => /\ ReportedKeys(1) \cap ReportedKeys(2) = {}
       /\ ReportedKeys(1) \cup ReportedKeys(2)
              = ApprovedInRun(req[1].tenant_id, req[1].subject_id)
       /\ ~ \E r \in internal_marks : SameSubject(r, req[1]) /\ r.status = "submitted"

\* both calls have returned, the one that ran first approved two rows and the
\* other found none
C6_Witness ==
    /\ Served(1, {"approve"}) /\ Served(2, {"approve"})
    /\ SameSubject(req[1], req[2])
    /\ req[1].now < req[2].now
    /\ resp[1].data = {}
    /\ Cardinality(resp[2].data) = 2

-----------------------------------------------------------------------------
(* Properties of the on-duty workflow *)

OdRow(table, od_id) == { r \in table : r.id = od_id }

Terminal(r) == r.status \in {"approved", "rejected"}

\* C2: a faculty_action by a faculty member who is not the designated advisor
\* of the requesting student leaves the request unchanged, whatever its status.
C2_OnlyAdvisorActs ==
    [][\A p \in Procs :
          faculty_od_action_exec(p) =>
              \A r \in OdRow(od_requests, req[p].od_id) :
                  faculty_advisor_id(r.student_id) # req[p].user_id
                      => r \in od_requests']_vars

\* C8: a request that is 'approved' or 'rejected' is never changed by a step,
\* and a faculty or HOD action sent to the store against such a request
\* returns success with zero rows.
C8_TerminalImmune ==
    [][/\ \A r \in od_requests : Terminal(r) => r \in od_requests'
       /\ \A p \in Procs :
             (/\ faculty_od_action_exec(p) \/ hod_od_action_exec(p)
              /\ \E r \in OdRow(od_requests, req[p].od_id) : Terminal(r))
             => resp'[p] = [code |-> 200, data |-> {}]]_vars

\* an action on a terminal request of the caller's tenant was served with zero rows
C8_Witness ==
    \E p \in Procs :
        /\ Served(p, {"faculty_action", "hod_action"})
        /\ resp[p].data = {}
        /\ \E r \in OdRow(od_requests, req[p].od_id) :
              Terminal(r) /\ r.tenant_id = req[p].tenant_id

C9_Created(p) == od_requests' \ od_requests

\* C9: apply_od stores exactly one new request, of the caller, whose status is
\* 'pending_hod' when od_type is 'special' or 'medical' and 'pending_faculty'
\* for every other od_type; no other step creates a request.
C9_InitialStatus ==
    [][/\ \A p \in Procs :
             apply_od_exec(p) =>
                 /\ Cardinality(C9_Created(p)) = 1
                 /\ \A n \in C9_Created(p) :
                       /\ n.student_id = req[p].user_id
                       /\ n.od_type = req[p].od_type
                       /\ n.od_type \in {"special", "medical"} => n.status = "pending_hod"
                       /\ n.od_type \notin {"special", "medical"}
                              => n.status = "pending_faculty"
       /\ (\A p \in Procs : ~ apply_od_exec(p)) =>
              { n.id : n \in od_requests' } = { r.id : r \in od_requests }]_vars

\* a 'medical' request was created in 'pending_hod' beside a 'sports' request
\* in 'pending_faculty'
C9_Witness ==
    /\ \E p \in Procs :
          /\ Served(p, {"apply"})
          /\ \E n \in resp[p].data : n.od_type = "medical" /\ n.status = "pending_hod"
    /\ \E r \in od_requests :
          r.od_type \in {"sports", "normal"} /\ r.status = "pending_faculty"

\* how far a request is through the two review steps
Rank(r) ==
    CASE r.status = "pending_faculty" -> 0
      [] r.status = "pending_hod" -> 1
      [] OTHER -> 2

\* C10: a step that modifies a stored request is either a faculty action on a
\* request in 'pending_faculty' or an HOD action on a request in 'pending_hod',
\* and it moves the request strictly forward (pending_faculty, then
\* pending_hod, then terminal); so a request is modified at most twice after
\* its creation, by a faculty action and then an HOD action, and is terminal
\* after that.
C10_AtMostTwoSteps ==
    [][\A r \in od_requests :
          r \in od_requests'
          \/ \E n \in od_requests', p \in Procs :
                /\ n.id = r.id
                /\ Rank(n) > Rank(r)
                /\ \/ /\ faculty_od_action_exec(p)
                      /\ r.status = "pending_faculty"
                      /\ n.hod_action_by = r.hod_action_by
                   \/ /\ hod_od_action_exec(p)
                      /\ r.status = "pending_hod"
                      /\ n.status \in {"approved", "rejected"}
                      /\ n.faculty_action_by = r.faculty_action_by]_vars

\* a request went through both steps in the run: faculty action, then HOD action
C10_Witness ==
    \E r \in od_requests :
        /\ Terminal(r)
        /\ r.faculty_action_at >= StartClock
        /\ r.hod_action_at > r.faculty_action_at

-----------------------------------------------------------------------------
(* Properties of the timetable *)

SameCell(a, b) == a.day_of_week = b.day_of_week /\ a.period_number = b.period_number

DoubleBooked(a, b) ==
    /\ SameCell(a, b)
    /\ \/ a.faculty_id = b.faculty_id
       \/ a.batch_id = b.batch_id
       \/ a.classroom_id # None /\ a.classroom_id = b.classroom_id

\* C3: in every reachable state of timetable_slots, after any sequence of
\* generate runs, manual creations and deletions, no two slots share
\* (faculty_id, day_of_week, period_number), no two share (batch_id,
\* day_of_week, period_number), and no two with a non-null classroom_id share
\* (classroom_id, day_of_week, period_number).
C3_NoSharedKey ==
    \A a \in timetable_slots, b \in timetable_slots : a # b => ~ DoubleBooked(a, b)

\* a manual creation was refused with 409 against a table holding a seeded slot
\* and a generated timetable, with and without rooms
C3_Witness ==
    \E p \in Solo :
        /\ pc[p] = "idle"
        /\ req[p].op = "create_slot"
        /\ resp[p].code = 409
        /\ Cardinality(timetable_slots) >= 3
        /\ \E a \in timetable_slots : a.classroom_id = None
        /\ \E a \in timetable_slots : a.classroom_id # None

\* the candidate a run in its loop is about to insert
GenAt(p) == GenScan(req[p], req[p].ai, req[p].day, req[p].pi, req[p].allocated)

\* the insert of a run's next candidate would duplicate a stored key
LosesRace(p) ==
    /\ pc[p] = "gen_loop"
    /\ ~ GenAt(p).done
    /\ UniqueViolation(timetable_slots, GenSlotData(req[p], GenAt(p)))

C7_RejectedStep(p) ==
    (LosesRace(p) /\ generate_timetable_loop(p)) =>
        /\ timetable_slots' = timetable_slots
        /\ pc'[p] = "gen_loop"
        /\ resp'[p] = resp[p]
        /\ req'[p].created = req[p].created
        /\ <<req'[p].ai, req'[p].day, req'[p].pi>> =
              <<GenAt(p).ai, GenAt(p).day, GenAt(p).pi + 1>>
        /\ req'[p].allocated = GenAt(p).allocated

C7_NoDoubleBookedSlot ==
    \A p \in Procs, q \in Procs :
        (p # q /\ req[p].op = "generate" /\ req[q].op = "generate") =>
            \A a \in timetable_slots, b \in timetable_slots :
                (a # b /\ a.batch_id = req[p].batch_id /\ b.batch_id = req[q].batch_id)
                    => ~ DoubleBooked(a, b)

\* C7: when two generate runs of one tenant interleave, each with the occupancy
\* index it read at its start, an insert that would duplicate a stored
\* (faculty, day, period), (room, day, period) or (batch, day, period) key
\* stores nothing, the run that lost stays in its loop at the position after
\* that candidate with its count and its created slots unchanged, and no
\* double-booked slot is ever stored.
C7_LostRaceSkipped ==
    /\ [] C7_NoDoubleBookedSlot
    /\ [][\A p \in Procs : C7_RejectedStep(p)]_vars

\* two runs for different batches have both returned; one stored a slot the
\* other's index never showed, and the other holds the same faculty member's
\* next period of that day, having skipped the taken one
C7_Witness ==
    \E p \in Procs, q \in Procs :
        /\ p # q
        /\ pc[p] = "idle" /\ pc[q] = "idle"
        /\ req[p].op = "generate" /\ req[q].op = "generate"
        /\ resp[p].code = 200 /\ resp[q].code = 200
        /\ req[p].batch_id # req[q].batch_id
        /\ \E a \in req[q].created, b \in req[p].created :
              /\ a \in timetable_slots /\ b \in timetable_slots
              /\ <<a.faculty_id, a.day_of_week, a.period_number>> \notin req[p].faculty_occupied
              /\ b.faculty_id = a.faculty_id
              /\ b.day_of_week = a.day_of_week
              /\ b.period_number > a.period_number

-----------------------------------------------------------------------------
(* Properties of the role guard *)

Tables == <<internal_marks, od_requests, timetable_slots>>

\* the step admits caller u to one of the operations open to the roles in allowed
AdmitsTo(p, u, allowed) ==
    \/ /\ allowed = {"faculty"}
       /\ \/ \E e \in AccessEntries : submit_marks_call(p, u, "sub1", e)
          \/ \E i \in {1, 2} : faculty_od_action_call(p, u, i, "approve", None)
    \/ /\ allowed = {"hod", "admin"}
       /\ \E a \in {"approve", "reject"} : approve_marks_call(p, u, "sub1", a)
    \/ /\ allowed = {"admin"}
       /\ \/ lock_marks_call(p, u, "sub1")
          \/ \E body \in SlotBodies : create_timetable_slot_call(p, u, body)
          \/ delete_timetable_slot_call(p, u, 1)
          \/ \E f \in BOOLEAN : generate_timetable_call(p, u, "b1", f)
    \/ /\ allowed = {"hod"}
       /\ \E i \in {1, 2} : hod_od_action_call(p, u, i, "approve", None)
    \/ /\ allowed = {"student"}
       /\ \E t \in {"normal", "medical"} : apply_od_call(p, u, "sub1", "sub1", t)

C11_Step(p, u, allowed) ==
    role(u) \notin allowed =>
        /\ ~ AdmitsTo(p, u, allowed)
        /\ Denied(p, u, allowed) => (resp'[p].code = 403 /\ Tables' = Tables)
        /\ pc[p] = "idle" => ENABLED Denied(p, u, allowed)

\* C11: a caller whose role is outside the operation's allowed set (submit:
\* faculty; approve/reject marks: hod, admin; lock: admin; faculty_action:
\* faculty; hod_action: hod; apply_od: student; generate and manual slot
\* create/delete: admin) is never admitted to the operation; the request is
\* answered with 403 and every stored row is left unchanged.
C11_RoleGuard ==
    [][\A p \in Solo, u \in AccessCallers, allowed \in AccessAllowed :
           C11_Step(p, u, allowed)]_vars

\* a request was refused after others had been served and the tables are filled
C11_Witness ==
    /\ resp[1].code = 403
    /\ req[1] = NoReq
    /\ clock > StartClock
    /\ internal_marks # {} /\ od_requests # {} /\ timetable_slots # {}

-----------------------------------------------------------------------------
(* Properties of generation *)

\* the step is one of process p's generate_timetable steps
GenerateStep(p) ==
    \/ \E u \in {"adm1", "adm9"}, b \in {"b1", "b2", "b0"}, f \in BOOLEAN :
          generate_timetable_call(p, u, b, f)
    \/ generate_timetable_clear(p)
    \/ generate_timetable_read(p)
    \/ generate_timetable_loop(p)

\* C12: a generate_timetable call that ends in a not-found or configuration
\* error (batch absent, no subjects for the batch's semester, no period
\* templates) leaves timetable_slots exactly as it was, also when
\* force_regenerate is true.
C12_ErrorLeavesSlots ==
    [][\A p \in Solo :
          (GenerateStep(p) /\ pc'[p] = "idle" /\ resp'[p].code \in {400, 404})
              => timetable_slots' = timetable_slots]_vars

\* the rows of the read-only tables that belong to one tenant
OwnRows(cat, tenant_id) ==
    [batches |-> { x \in cat.batches : x.tenant_id = tenant_id },
     subjects |-> { x \in cat.subjects : x.tenant_id = tenant_id },
     faculty_assignments |->
         SelectSeq(cat.faculty_assignments, LAMBDA a : a.tenant_id = tenant_id),
     period_templates |-> { x \in cat.period_templates : x.tenant_id = tenant_id },
     classrooms |-> { x \in cat.classrooms : x.tenant_id = tenant_id }]

ForeignRows(table, tenant_id) == { r \in table : r.tenant_id # tenant_id }

\* what a run takes from the read-only tables is what it would take from the
\* caller's own rows alone
C13_ReadsOwnRows(p) ==
    generate_timetable_clear(p) =>
        LET t == req[p].tenant_id
            own == OwnRows(catalog, t)
        IN  /\ (resp'[p].code = 400) <=>
                   \/ GenSubjects(own, t, req[p].semester) = {}
                   \/ GenPeriods(own, t) = <<>>
            /\ pc'[p] = "gen_read" =>
                   /\ req'[p].periods = GenPeriods(own, t)
                   /\ req'[p].rooms = GenRooms(own, t)
                   /\ req'[p].assignments =
                          GenAssignments(own, t, GenSubjects(own, t, req[p].semester))

\* no step of a caller of one tenant changes a row of another tenant
C13_WritesOwnRows(p) ==
    (GenerateStep(p) /\ req'[p].op = "generate") =>
        LET t == req'[p].tenant_id
        IN  /\ ForeignRows(timetable_slots', t) = ForeignRows(timetable_slots, t)
            /\ ForeignRows(internal_marks', t) = ForeignRows(internal_marks, t)
            /\ ForeignRows(od_requests', t) = ForeignRows(od_requests, t)

\* C13: every read and write issued on behalf of a non-super_admin caller is
\* filtered by the caller's tenant id: the outcome of an operation by a caller
\* of one tenant does not depend on any row of another tenant, and no row of
\* another tenant is changed by it.
C13_TenantFiltered ==
    [][\A p \in Solo : C13_ReadsOwnRows(p) /\ C13_WritesOwnRows(p)]_vars

\* the stored slots of a run's batch
BatchSlots(table, r) ==
    { x \in table : x.tenant_id = r.tenant_id /\ x.batch_id = r.batch_id }

Forced(p) == req[p].op = "generate" /\ req[p].force_regenerate

C14_Step(p) ==
    Forced(p) =>
        /\ generate_timetable_clear(p) =>
              /\ BatchSlots(timetable_slots', req[p]) = {}
              /\ timetable_slots' = timetable_slots \ BatchSlots(timetable_slots, req[p])
        /\ generate_timetable_read(p) =>
              /\ BatchSlots(timetable_slots, req[p]) = {}
              /\ LET remaining == { x \in timetable_slots : x.tenant_id = req[p].tenant_id }
                 IN  /\ req'[p].faculty_occupied = FacultyOccupied(remaining)
                     /\ req'[p].room_occupied = RoomOccupied(remaining)
                     /\ req'[p].batch_occupied = BatchOccupied(remaining)
              /\ req'[p].created = {}
        /\ (generate_timetable_loop(p) /\ pc'[p] = "idle") =>
              /\ resp'[p].code = 200
              /\ BatchSlots(timetable_slots', req[p]) = resp'[p].data.slots
              /\ resp'[p].data.allocated_slots =
                     Cardinality(BatchSlots(timetable_slots', req[p]))

\* C14: generate_timetable with force_regenerate=true deletes every existing
\* slot of the batch before the greedy pass starts, builds its occupancy index
\* from the rows that remain, and when the run returns the batch's slots are
\* exactly the slots that run created, allocated_slots being their number.
C14_ForceRegenerate == [][\A p \in Solo : C14_Step(p)]_vars

\* a forced run for b1 has returned: the slot b1 had (id 2) is gone, the other
\* batch's slots (ids 1 and 3) are kept, and b1 holds the three new slots
C14_Witness ==
    /\ pc[1] = "idle" /\ Forced(1) /\ resp[1].code = 200
    /\ req[1].batch_id = "b1"
    /\ { x.id : x \in timetable_slots } = {1, 3, 4, 5, 6}
    /\ resp[1].data.allocated_slots = 3
    /\ BatchSlots(timetable_slots, req[1]) = resp[1].data.slots

-----------------------------------------------------------------------------
(* Properties of the greedy pass *)

Cell(x) == <<x.day_of_week, x.period_number>>

\* day-then-period order
Precedes(a, b) == a[1] < b[1] \/ (a[1] = b[1] /\ a[2] <= b[2])

\* the (day, period) pairs the institution offers
Offered(cat, tenant_id) ==
    (1..LastDay) \X
    { t.period_number :
          t \in { x \in cat.period_templates : x.tenant_id = tenant_id /\ ~x.is_break } }

\* the first n of a set of pairs in day-then-period order
FirstCells(n, cells) ==
    { c \in cells : Cardinality({ d \in cells : Precedes(d, c) }) <= n }

PeriodsPerDay(cat, tenant_id) ==
    Cardinality({ x \in cat.period_templates : x.tenant_id = tenant_id /\ ~x.is_break })

\* the run of p returns, having found no slot stored and one assignment of 4 hours
C15_Case(p) ==
    /\ generate_timetable_loop(p)
    /\ pc'[p] = "idle"
    /\ Len(req[p].assignments) = 1
    /\ req[p].assignments[1].hours_per_week = 4
    /\ timetable_slots' = req[p].created

C15_Step(p) ==
    C15_Case(p) =>
        LET slots == resp'[p].data.slots
            cells == { Cell(x) : x \in slots }
            P == PeriodsPerDay(catalog, req[p].tenant_id)
        IN  /\ resp'[p].data.allocated_slots = 4
            /\ Cardinality(slots) = 4
            /\ Cardinality(cells) = 4
            /\ cells = FirstCells(4, Offered(catalog, req[p].tenant_id))
            /\ P >= 4 => \A c \in cells : c[1] = 1
            /\ P < 4 => /\ Cardinality({ c \in cells : c[1] = 1 }) = P
                        /\ \E c \in cells : c[1] = 2

\* C15: with a single assignment of hours_per_week = 4, P non-break periods a
\* day on 6 days and no slot stored before, a generate run creates exactly 4
\* slots, at the first 4 (day, period) pairs in day-then-period order: all on
\* day 1 when P >= 4, otherwise filling day 1 and spilling to day 2.
C15_FirstFourCells == [][\A p \in Solo : C15_Step(p)]_vars

\* with three teaching periods a day (1, 2 and 4) a run has returned four slots:
\* day 1 filled and one slot on day 2
C15_Witness ==
    /\ pc[1] = "idle" /\ req[1].op = "generate" /\ resp[1].code = 200
    /\ PeriodsPerDay(catalog, "t1") = 3
    /\ timetable_slots = resp[1].data.slots
    /\ { Cell(x) : x \in timetable_slots } = {<<1, 1>>, <<1, 2>>, <<1, 4>>, <<2, 1>>}

-----------------------------------------------------------------------------
(* Properties of partial scheduling *)

\* the slots a run holds for its i-th assignment
PlacedFor(g, i) ==
    { x \in g.created : x.subject_id = g.assignments[i].subject_id
                        /\ x.faculty_id = g.assignments[i].faculty_id }

\* some assignment of the run is left short of its hours
LeftShort(g) ==
    \E i \in 1..Len(g.assignments) :
        Cardinality(PlacedFor(g, i)) < g.assignments[i].hours_per_week

\* the tenant's assignments of the subjects of the batches' semester
Retrieved(tenant_id) ==
    { i \in 1..Len(catalog.faculty_assignments) :
          /\ catalog.faculty_assignments[i].tenant_id = tenant_id
          /\ \E x \in catalog.subjects :
                /\ x.tenant_id = tenant_id
                /\ x.semester = 1
                /\ x.id = catalog.faculty_assignments[i].subject_id }

C16_Step(p) ==
    generate_timetable_loop(p) =>
        \* created_slots holds exactly what the run inserted
        /\ req'[p].created \ req[p].created = timetable_slots' \ timetable_slots
        /\ req[p].created \subseteq req'[p].created
        \* the run returns success with the two counts
        /\ pc'[p] = "idle" =>
              /\ resp'[p].code = 200
              /\ resp'[p].data.allocated_slots = Cardinality(req[p].created)
              /\ resp'[p].data.total_assignments =
                     Cardinality(Retrieved(req[p].tenant_id))

\* C16: when some assignment's hours_per_week cannot be fully placed (faculty
\* or batch occupied, or inserts rejected), generate_timetable still returns
\* success; allocated_slots is the number of slots this run inserted and
\* total_assignments the number of assignments retrieved.
C16_PartialIsSuccess == [][\A p \in Procs : C16_Step(p)]_vars

\* both runs have returned success, each short of the hours asked; one of them
\* stored fewer slots than its batch has cells, having lost inserts to the other
C16_Witness ==
    /\ pc[1] = "idle" /\ pc[2] = "idle"
    /\ resp[1].code = 200 /\ resp[2].code = 200
    /\ req[1].op = "generate" /\ req[2].op = "generate"
    /\ req[1].batch_id # req[2].batch_id
    /\ LeftShort(req[1]) /\ LeftShort(req[2])
    /\ resp[1].data.allocated_slots < 6
    /\ resp[1].data.total_assignments = 2
    /\ \E x \in req[2].created :
          <<x.faculty_id, x.day_of_week, x.period_number>> \notin req[1].faculty_occupied

-----------------------------------------------------------------------------
(* Properties of conflict reporting *)

\* the slot a manual creation is about to insert would duplicate a stored key
ManualClash(p) ==
    /\ pc[p] = "exec"
    /\ req[p].op = "create_slot"
    /\ \E x \in timetable_slots : DoubleBooked(x, req[p].data)

C17_Step(p) ==
    /\ (ManualClash(p) /\ create_timetable_slot_exec(p)) =>
          /\ resp'[p].code = 409
          /\ timetable_slots' = timetable_slots
    /\ (LosesRace(p) /\ generate_timetable_loop(p)) =>
          /\ resp'[p] = NoResp
          /\ pc'[p] = "gen_loop"
          /\ timetable_slots' = timetable_slots
    /\ (generate_timetable_loop(p) /\ pc'[p] = "idle") => resp'[p].code = 200

\* C17: a manual slot creation that would duplicate a stored (faculty, day,
\* period), (batch, day, period) or (room, day, period) key fails with 409 and
\* stores no slot, whereas the same violation inside a generate run raises no
\* error: the run stores nothing for that candidate, goes on and returns success.
C17_ConflictReported == [][\A p \in Procs : C17_Step(p)]_vars

\* a manual creation was answered 409 because of a slot the other admin's
\* generate run had stored
C17_Witness ==
    \E p \in Procs, q \in Procs :
        /\ p # q
        /\ req[p].op = "create_slot" /\ pc[p] = "idle" /\ resp[p].code = 409
        /\ req[q].op = "generate" /\ pc[q] \in {"gen_loop", "idle"}
        /\ \E x \in req[q].created : x \in timetable_slots /\ DoubleBooked(x, req[p].data)
        /\ \A x \in timetable_slots \ req[q].created : ~ DoubleBooked(x, req[p].data)

-----------------------------------------------------------------------------
(* Properties of the faculty and HOD actions *)

\* the request a faculty or HOD action names, when the store holds it for the
\* caller's tenant in the given status
Named(p, status) ==
    { r \in OdRow(od_requests, req[p].od_id) :
          r.tenant_id = req[p].tenant_id /\ r.status = status }

C18_Call(p, u, i) ==
    /\ \A reason \in Reasons :
          faculty_od_action_call(p, u, i, "approve", reason) =>
              /\ pc'[p] = "exec"
              /\ req'[p].update_data.status = "pending_hod"
    /\ \A reason \in Reasons \ {None} :
          faculty_od_action_call(p, u, i, "reject", reason) =>
              /\ pc'[p] = "exec"
              /\ req'[p].update_data.status = "rejected"
              /\ req'[p].update_data.rejection_reason = reason
    \* a reject without a reason is not accepted
    /\ faculty_od_action_call(p, u, i, "reject", None) =>
          /\ pc'[p] = "idle"
          /\ resp'[p].code \in {400, 422}

C18_Exec(p) ==
    faculty_od_action_exec(p) =>
        \A r \in Named(p, "pending_faculty") :
            od_requests' =
                (od_requests \ {r}) \cup
                {[ApplyUpdate(r, req[p].update_data) EXCEPT
                     !.faculty_action_by = req[p].user_id,
                     !.faculty_action_at = req[p].now]}

\* C18: faculty_action on a request in 'pending_faculty': 'approve' moves it to
\* 'pending_hod' and 'reject' moves it to 'rejected', both stamping the acting
\* faculty and the time; a 'reject' is accepted only with a rejection reason,
\* which is stored on the request.
C18_FacultyAction ==
    [][\A p \in Solo :
          /\ C18_Exec(p)
          /\ \A u \in OdCallers, i \in OdIds(od_requests) : C18_Call(p, u, i)]_vars

\* the step sends a HOD action on to the store
HodCalls(p) == pc[p] = "idle" /\ pc'[p] = "exec" /\ req'[p].op = "hod_action"

C19_Call(p) ==
    HodCalls(p) =>
        \A reason \in Reasons :
            /\ hod_od_action_call(p, req'[p].user_id, req'[p].od_id, "approve", reason) =>
                  req'[p].update_data.status = "approved"
            /\ hod_od_action_call(p, req'[p].user_id, req'[p].od_id, "reject", reason) =>
                  /\ req'[p].update_data.status = "rejected"
                  /\ "rejection_reason" \in DOMAIN req'[p].update_data
                  /\ req'[p].update_data.rejection_reason = reason

C19_Exec(p) ==
    hod_od_action_exec(p) =>
        /\ \A r \in od_requests \ Named(p, "pending_hod") : r \in od_requests'
        /\ \A r \in Named(p, "pending_hod") :
              /\ r \notin od_requests'
              /\ ApplyUpdate(r, req[p].update_data) \in od_requests'
              /\ ApplyUpdate(r, req[p].update_data).status \in {"approved", "rejected"}
        /\ Cardinality(od_requests') = Cardinality(od_requests)

\* C19: hod_action changes an OD request only when its current status is
\* 'pending_hod': 'approve' moves it to 'approved' and 'reject' to 'rejected'
\* with the reason stored; a request in 'pending_faculty' is never moved to
\* 'approved' or 'rejected' by hod_action.
C19_HodAction ==
    [][\A p \in Solo :
          C19_Exec(p) /\ C19_Call(p)]_vars

\* the HOD has rejected a request that was 'pending_hod', the reason is stored,
\* and a request in 'pending_faculty' is still there
C19_Witness ==
    /\ Served(1, {"hod_action"})
    /\ \E r \in resp[1].data :
          /\ r \in od_requests
          /\ r.status = "rejected"
          /\ r.rejection_reason = "clash"
          /\ r.hod_action_by = req[1].user_id
          /\ r.hod_action_at = req[1].now
    /\ \E r \in od_requests : r.status = "pending_faculty"

-----------------------------------------------------------------------------
(* Properties of the rejection of marks *)

C20_Step(p) ==
    /\ \A r \in internal_marks :
          IF r.tenant_id = req[p].tenant_id /\ r.subject_id = req[p].subject_id
             /\ r.status = "submitted"
          THEN /\ r \notin internal_marks'
               /\ [r EXCEPT !.status = "draft"] \in internal_marks'
          ELSE r \in internal_marks'
    /\ Cardinality(internal_marks') = Cardinality(internal_marks)

\* C20: reject(tenant, subject) sets every 'submitted' row of that (tenant,
\* subject) to 'draft' and leaves unchanged every row in another status, every
\* row of another subject and every row of another tenant; the rejected rows
\* keep their marks (and every other column).
C20_RejectFrame ==
    [][\A p \in Solo :
          (approve_marks_exec(p) /\ req[p].op = "reject") => C20_Step(p)]_vars

\* a reject was served that sent a row back to 'draft' with its marks, while a
\* row of the subject in another status, a 'submitted' row of another subject
\* and a 'submitted' row of another tenant are still what they were
C20_Witness ==
    /\ Served(1, {"reject"})
    /\ \E r \in resp[1].data :
          r \in internal_marks /\ r.status = "draft" /\ r.marks = 20 /\ r.max_marks = 50
    /\ \E r \in internal_marks :
          SameSubject(r, req[1]) /\ r.status \in {"approved", "locked"}
    /\ \E r \in internal_marks :
          /\ r.tenant_id = req[1].tenant_id
          /\ r.subject_id # req[1].subject_id
          /\ r.status = "submitted"
    /\ \E r \in internal_marks :
          /\ r.tenant_id # req[1].tenant_id
          /\ r.subject_id = req[1].subject_id
          /\ r.status = "submitted"

-----------------------------------------------------------------------------
(* Properties of the submission of marks *)

OneRowPerKey(table) ==
    \A a \in table, b \in table : MarksKey(a) = MarksKey(b) => a = b

C21_Step(p) ==
    submit_marks_exec(p) =>
        \* the rows written are 'submitted' and carry the submitter
        /\ \A rec \in req[p].records :
              \E r \in internal_marks' :
                  /\ MarksKey(r) = MarksKey(rec)
                  /\ r.status = "submitted"
                  /\ r.submitted_by = req[p].user_id
                  /\ r.marks = rec.marks /\ r.max_marks = rec.max_marks
                  /\ r \in resp'[p].data
        \* the same submit once more changes nothing
        /\ UpsertTable(internal_marks', req[p].records) = internal_marks'
        /\ UpsertWritten(internal_marks', req[p].records) = resp'[p].data

\* C21: submit is an idempotent upsert on the key (tenant, subject, student):
\* after any sequence of submits there is at most one internal_marks row per
\* key, submitting the same entries twice leaves the stored state of submitting
\* them once, and each submitted row has status 'submitted' with the submitter
\* recorded.
C21_SubmitIdempotent ==
    /\ [] OneRowPerKey(internal_marks)
    /\ [][\A p \in Solo : C21_Step(p)]_vars

\* a submit was served on a key that was stored before (the row still carries
\* its earlier approval stamp) and the table holds one row for that key
C21_Witness ==
    /\ Served(1, {"submit"})
    /\ \E r \in resp[1].data :
          /\ r \in internal_marks
          /\ r.status = "submitted"
          /\ r.submitted_by = req[1].user_id
          /\ r.approved_by # None
          /\ Cardinality({ x \in internal_marks : MarksKey(x) = MarksKey(r) }) = 1

-----------------------------------------------------------------------------
(* Properties of the bulk responses *)

BulkExec(p) == approve_marks_exec(p) \/ lock_marks_exec(p)

\* the rows of the new table whose status differs from the stored one
Transitioned ==
    { n \in internal_marks' :
          \E r \in internal_marks : MarksKey(r) = MarksKey(n) /\ r.status # n.status }

\* count = len(result.data)
ReportedCount(p) == Cardinality(resp[p].data)

C22_Step(p) ==
    BulkExec(p) =>
        /\ resp'[p].code = 200
        /\ resp'[p].data = Transitioned
        /\ ReportedCount(p)' = Cardinality(Transitioned)
        /\ ReportedCount(p)' =
              Cardinality({ MarksKey(r) : r \in internal_marks' \ internal_marks })
        /\ (Transitioned = {}) <=> (internal_marks' = internal_marks)

\* C22: each bulk marks operation (approve, reject, lock) returns exactly the
\* rows it transitioned in this call, the reported count is the number of rows
\* whose status changed, and when no row matches it returns a success with
\* zero rows.
C22_BulkReportsTransitions ==
    [][\A p \in Solo : C22_Step(p)]_vars

\* a bulk operation reported some rows of a subject and left another row of
\* that subject out
C22_Witness ==
    /\ Served(1, {"approve", "reject", "lock"})
    /\ resp[1].data # {}
    /\ resp[1].data \subseteq internal_marks
    /\ \E r \in internal_marks : SameSubject(r, req[1]) /\ r \notin resp[1].data

-----------------------------------------------------------------------------
(* Properties of the placement of a run *)

\* the run of p has returned its result
Completed(p) ==
    pc[p] = "idle" /\ req[p].op = "generate" /\ resp[p].code = 200

\* the tenant's slots the run found stored
FoundStored(p) ==
    { x \in timetable_slots : x.tenant_id = req[p].tenant_id } \ req[p].created

\* the pairs of the week, days 1..6 and the template periods of the run
WeekCells(g) == (1..LastDay) \X { g.periods[k] : k \in 1..Len(g.periods) }

\* The placement the greedy rule prescribes from assignment i on, given the
\* pairs at which a faculty (busyF) and the batch (busyB) are occupied.
RECURSIVE Prescribed(_, _, _, _)
Prescribed(g, i, busyF, busyB) ==
    IF i > Len(g.assignments) THEN {}
    ELSE LET a == g.assignments[i]
             free == { c \in WeekCells(g) :
                          <<a.faculty_id, c>> \notin busyF /\ c \notin busyB }
             take == FirstCells(Min({a.hours_per_week, Cardinality(free)}), free)
         IN  { [ai |-> i, cell |-> c] : c \in take }
                 \cup Prescribed(g, i + 1,
                                 busyF \cup { <<a.faculty_id, c>> : c \in take },
                                 busyB \cup take)

\* the placement the run made
Placed(g) ==
    UNION { { [ai |-> i, cell |-> Cell(x)] : x \in PlacedFor(g, i) } :
                i \in 1..Len(g.assignments) }

C23_Placement(p) ==
    Completed(p) =>
        LET g == req[p]
            found == FoundStored(p)
        IN  /\ Placed(g) =
                  Prescribed(g, 1,
                             { <<x.faculty_id, Cell(x)>> : x \in found },
                             { Cell(x) : x \in { y \in found : y.batch_id = g.batch_id } })
            /\ Cardinality(Placed(g)) = Cardinality(g.created)
            /\ resp[p].data.slots = g.created

-----------------------------------------------------------------------------
(* Properties of the room of a created slot *)

\* the tenant's available classrooms the index does not show as taken at a pair
RoomsFree(p, day, pnum) ==
    { c \in catalog.classrooms :
          /\ c.tenant_id = req[p].tenant_id
          /\ c.is_available
          /\ <<c.id, day, pnum>> \notin req[p].room_occupied }

Largest(rooms) == CHOOSE c \in rooms : \A x \in rooms : c.capacity >= x.capacity

C24_Step(p) ==
    (generate_timetable_loop(p) /\ ~ GenAt(p).done) =>
        LET at == GenAt(p)
            day == at.day
            pnum == req[p].periods[at.pi]
            free == RoomsFree(p, day, pnum)
        IN  \* the slot is created, with or without a room
            \E row \in timetable_slots' \ timetable_slots :
                /\ timetable_slots' = timetable_slots \cup {row}
                /\ row \in req'[p].created
                /\ Cell(row) = <<day, pnum>>
                /\ row.classroom_id = None <=> free = {}
                /\ free # {} => row.classroom_id = Largest(free).id

\* C24: for each slot a run creates, classroom_id is the first available
\* classroom in descending-capacity order that the occupancy index does not
\* show as taken at that (day, period); it is null exactly when every
\* available classroom is taken there, and the slot is still created.
C24_RoomChoice ==
    [][\A p \in Solo : C24_Step(p)]_vars

\* a run created a slot in the smaller room where the larger was taken, and a
\* slot in the larger room elsewhere
C24_Witness ==
    /\ Completed(1)
    /\ \E x \in req[1].created, y \in FoundStored(1) :
          /\ x.classroom_id = "r2"
          /\ y.classroom_id = "r1"
          /\ Cell(x) = Cell(y)
    /\ \E x \in req[1].created : x.classroom_id = "r1"

-----------------------------------------------------------------------------
(* Termination of a run *)

\* the position of the loops: assignment, day, period
LoopAt(g) == <<g.ai, g.day, g.pi>>

Before(a, b) ==
    \/ a[1] < b[1]
    \/ a[1] = b[1] /\ a[2] < b[2]
    \/ a[1] = b[1] /\ a[2] = b[2] /\ a[3] < b[3]

\* Every insert attempt is made at a position of the loops (an assignment, a
\* day 1..6, a period of the templates) that lies at or after the position the
\* run was at, and leaves the run after it: no position is attempted twice,
\* and an assignment has 6 x |periods| positions.
C25_Step(p) ==
    generate_timetable_loop(p) =>
        LET g == req[p]
            at == GenAt(p)
        IN  IF at.done
            THEN /\ pc'[p] = "idle"
                 /\ resp'[p].code = 200
                 /\ resp'[p].data.slots = g.created
            ELSE /\ at.ai \in 1..Len(g.assignments)
                 /\ at.day \in 1..LastDay
                 /\ at.pi \in 1..Len(g.periods)
                 /\ ~ Before(<<at.ai, at.day, at.pi>>, LoopAt(g))
                 /\ Before(<<at.ai, at.day, at.pi>>, LoopAt(req'[p]))
                 /\ pc'[p] = "gen_loop"

\* C25: every generate run terminates: it makes at most 6 x |periods| insert
\* attempts for each assignment, also when every insert is rejected, and then
\* returns its result.
C25_RunTerminates ==
    /\ [][\A p \in Procs : C25_Step(p)]_vars
    /\ \A p \in Procs : (pc[p] # "idle") ~> (pc[p] = "idle" /\ resp[p] # NoResp)

\* a run that read an empty week returned with no slot created, every one of
\* its inserts having been rejected: the other run filled the batch's week
C25_Witness ==
    \E p \in Procs :
        /\ Completed(p)
        /\ req[p].created = {}
        /\ resp[p].data.allocated_slots = 0
        /\ req[p].batch_occupied = {}
        /\ Cardinality({ x \in timetable_slots : x.batch_id = req[p].batch_id }) =
              LastDay * Len(req[p].periods)

-----------------------------------------------------------------------------
(* Hours of an assignment over several runs *)

\* the stored slots of a batch for an assignment's faculty and subject
StoredFor(b, a) ==
    { x \in timetable_slots : /\ x.batch_id = b
                              /\ x.faculty_id = a.faculty_id
                              /\ x.subject_id = a.subject_id }

\* C26: after any sequence of generate runs for a batch, with or without
\* force_regenerate, the number of stored slots for one assignment's (batch,
\* faculty, subject) never exceeds that assignment's hours_per_week.
C26_HoursNeverExceeded ==
    \A b \in catalog.batches, i \in 1..Len(catalog.faculty_assignments) :
        Cardinality(StoredFor(b.id, catalog.faculty_assignments[i]))
            <= catalog.faculty_assignments[i].hours_per_week

-----------------------------------------------------------------------------
(* The order of the statuses of a marks row *)

\* the stored row of the key of n before the step, if any
StoredBefore(n) == { r \in internal_marks : MarksKey(r) = MarksKey(n) }

\* a row that has the status in the new table and had not in the old one
Enters(n, status) ==
    /\ n \in internal_marks'
    /\ n.status = status
    /\ ~ \E r \in StoredBefore(n) : r.status = status

C27_Step ==
    \A n \in internal_marks' :
        /\ Enters(n, "locked") =>
              /\ \E r \in StoredBefore(n) : r.status = "approved"
              /\ \E p \in Solo : lock_marks_exec(p)
        /\ Enters(n, "approved") =>
              /\ \E r \in StoredBefore(n) : r.status = "submitted"
              /\ \E p \in Solo : approve_marks_exec(p) /\ req[p].op = "approve"

Stamped ==
    \A r \in internal_marks :
        /\ r.status = "approved" => r.approved_by # None /\ r.approved_at # NoTime
        /\ r.status = "locked" =>
              /\ r.approved_by # None /\ r.approved_at # NoTime
              /\ r.locked_by # None /\ r.locked_at # NoTime
              /\ r.approved_at < r.locked_at

\* C27: a 'locked' row was 'approved' immediately before its lock and carries
\* an approver stamp; an 'approved' row was 'submitted' immediately before its
\* approval; no sequence of operations takes a row to 'locked' without passing
\* through 'approved'.
C27_StatusOrder ==
    /\ [] Stamped
    /\ [][C27_Step]_vars

\* a submitted row approved and then locked by requests served in this behaviour
C27_Witness ==
    /\ Served(1, {"lock"})
    /\ \E r \in resp[1].data :
          /\ r \in internal_marks
          /\ r.status = "locked"
          /\ r.approved_by # None
          /\ r.approved_at >= StartClock
          /\ r.locked_at > r.approved_at

-----------------------------------------------------------------------------
(* The stamps of an OD request *)

\* the types apply_od creates in 'pending_hod'
SkipsFaculty(r) == r.od_type \in {"special", "medical"}

FacultyStamped(r) == r.faculty_action_by # None

HodStamped(r) == r.hod_action_by # None

C28_Stamps ==
    \A r \in od_requests :
        /\ r.status = "approved" => HodStamped(r)
        /\ FacultyStamped(r) => ~ SkipsFaculty(r)
        /\ (SkipsFaculty(r) /\ r.status \in {"approved", "rejected"}) =>
              ~ FacultyStamped(r) /\ HodStamped(r)
        /\ r.status = "pending_faculty" => ~ FacultyStamped(r) /\ ~ HodStamped(r)

\* a new request is created in 'pending_faculty' unless its type skips the
\* faculty, and a faculty stamp is written only on a request that was in
\* 'pending_faculty'
C28_Step ==
    od_requests' # od_requests =>
    \A n \in od_requests' \ od_requests :
        /\ (~ \E r \in od_requests : r.id = n.id) =>
              /\ ~ FacultyStamped(n) /\ ~ HodStamped(n)
              /\ n.status = "pending_faculty" <=> ~ SkipsFaculty(n)
        /\ \A r \in od_requests :
              (r.id = n.id /\ n.faculty_action_by # r.faculty_action_by) =>
                  r.status = "pending_faculty"

\* C28: an 'approved' OD request carries an HOD stamp; a request carries a
\* faculty stamp only if it was created in 'pending_faculty'; a request created
\* as 'special' or 'medical' reaches 'approved' or 'rejected' with no faculty
\* stamp.
C28_OdStamps ==
    /\ [] C28_Stamps
    /\ [][C28_Step]_vars

\* the HOD decided a medical or special request in this behaviour, next to a
\* request that went through the faculty
C28_Witness ==
    /\ \E r \in od_requests :
          /\ SkipsFaculty(r)
          /\ r.status \in {"approved", "rejected"}
          /\ r.hod_action_at >= StartClock
          /\ HodStamped(r)
          /\ ~ FacultyStamped(r)
    /\ \E r \in od_requests : FacultyStamped(r) /\ ~ SkipsFaculty(r)

-----------------------------------------------------------------------------
(* An approve and a reject of one OD request at the same time *)

OdExec(p) == faculty_od_action_exec(p) \/ hod_od_action_exec(p)

\* the status a handler's UPDATE is filtered on
StepStatus(op) == IF op = "faculty_action" THEN "pending_faculty" ELSE "pending_hod"

\* p and q hold an approve and a reject of the same request at the same step
Opposed(p, q) ==
    /\ p # q
    /\ req[p].op \in {"faculty_action", "hod_action"}
    /\ req[q].op = req[p].op
    /\ req[q].od_id = req[p].od_id
    /\ req[q].tenant_id = req[p].tenant_id
    /\ req[p].update_data.status # "rejected"
    /\ req[q].update_data.status = "rejected"

\* the stored request the two act on
Target(p) == { r \in od_requests : r.id = req[p].od_id /\ r.tenant_id = req[p].tenant_id }

\* the statement of p: with the other request in flight and the request at
\* the step, p takes effect; after the other took effect, p affects no row
C29_Step(p, q) ==
    (OdExec(p) /\ (Opposed(p, q) \/ Opposed(q, p))) =>
        /\ (pc[q] = "exec" /\ \E r \in Target(p) : r.status = StepStatus(req[p].op)) =>
              /\ Cardinality(resp'[p].data) = 1
              /\ resp'[p].data \subseteq od_requests'
              /\ \A n \in resp'[p].data :
                    /\ n.status = req[p].update_data.status
                    /\ n.status # StepStatus(req[p].op)
        /\ (pc[q] = "idle" /\ resp[q].data # {}) =>
              /\ resp'[p] = [code |-> 200, data |-> {}]
              /\ od_requests' = od_requests
              /\ resp[q].data \subseteq od_requests'

\* both have returned: one of them reported the request, which is stored with
\* its status and stamp, and the other reported no row
C29_Outcome(p, q) ==
    (Opposed(p, q) /\ pc[p] = "idle" /\ pc[q] = "idle"
        /\ resp[p] # NoResp /\ resp[q] # NoResp) =>
        /\ resp[p].data = {} \/ resp[q].data = {}
        /\ resp[p].data \cup resp[q].data \subseteq od_requests
        /\ \A n \in resp[p].data : n.status # "rejected"
        /\ \A n \in resp[q].data : n.status = "rejected"

\* C29: when an 'approve' and a 'reject' on the same OD request at the same
\* step run concurrently, exactly one takes effect: the request ends in the
\* state and with the stamp of one of them, and the other affects zero rows.
C29_OneTakesEffect ==
    /\ [] \A p \in Procs, q \in Procs : C29_Outcome(p, q)
    /\ [][\A p \in Procs, q \in Procs : p # q => C29_Step(p, q)]_vars

\* an approve by one faculty member and a reject by another of the same request,
\* both returned: the reject took effect and the approve reported no row
C29_Witness ==
    /\ Opposed(1, 2)
    /\ pc[1] = "idle" /\ pc[2] = "idle"
    /\ req[1].op = "faculty_action"
    /\ req[1].user_id # req[2].user_id
    /\ resp[1] = [code |-> 200, data |-> {}]
    /\ \E n \in resp[2].data :
          /\ n \in od_requests
          /\ n.status = "rejected"
          /\ n.faculty_action_by = req[2].user_id

-----------------------------------------------------------------------------
(* The slots of the other batches *)

\* the slots that are not of the run's batch in the caller's tenant
OtherSlots(table, r) == table \ BatchSlots(table, r)

C30_Step(p) ==
    (pc[p] \in {"gen_clear", "gen_read", "gen_loop"} /\ RunStep(p)) =>
        \* no slot of another batch is deleted or changed
        /\ OtherSlots(timetable_slots', req[p]) = OtherSlots(timetable_slots, req[p])
        \* rows leave the table only in the clear of a forced run
        /\ timetable_slots \ timetable_slots' # {} =>
              /\ generate_timetable_clear(p)
              /\ req[p].force_regenerate
              /\ timetable_slots \ timetable_slots' = BatchSlots(timetable_slots, req[p])
        \* every inserted row is of the batch and of the caller's tenant
        /\ \A n \in timetable_slots' \ timetable_slots :
              /\ generate_timetable_loop(p)
              /\ n.batch_id = req[p].batch_id
              /\ n.tenant_id = req[p].tenant_id

\* C30: a generate run for batch B never deletes or modifies a slot of
\* another batch: with force_regenerate only rows with batch_id = B of the
\* caller's tenant are deleted, and every inserted row has batch_id = B.
C30_OtherBatchesUntouched ==
    [][\A p \in Solo : C30_Step(p)]_vars

\* a forced run for b2 returned: the two slots of b2 are gone, the slot of b1
\* stands as it was, and the new slots are all of b2
C30_Witness ==
    /\ Completed(1)
    /\ Forced(1)
    /\ req[1].batch_id = "b2"
    /\ SeedSlotThree \cap timetable_slots = { x \in SeedSlotThree : x.batch_id = "b1" }
    /\ { x \in timetable_slots : x.batch_id = "b1" } # {}
    /\ req[1].created # {}
    /\ \A x \in req[1].created : x.batch_id = "b2"
    /\ { x \in timetable_slots : x.batch_id = "b2" } = req[1].created

====
